---- MODULE Spec2Model ----
(***************************************************************************)
(* Graph construction (InterventionGraphBuilder, graph.py) and graph       *)
(* retrieval (GeARRetrieval, gear_retrieval.py).                           *)
(*                                                                         *)
(* Numbers: a Python int is an integer; a Python float (severities,        *)
(* confidences, improvements, averages, Jaccard indices, centralities,    *)
(* similarities) is the IEEE 754 double the interpreter holds, with the    *)
(* rounding of each single operation.  Input values are written in tenths  *)
(* (Tenth(3) is the float 0.3).                                            *)
(* Graphs: a networkx DiGraph is [nodes, edges, graph]: nodes maps a node  *)
(* id to its attribute bag, edges maps <<source, target>> to its attribute *)
(* bag, graph is the graph-level attribute bag.                            *)
(***************************************************************************)
EXTENDS Integers, Sequences, FiniteSets, TLC

VARIABLES
    journeys,         \* the batch of journey dicts handed to the builder
    personal_graphs,  \* builder.personal_graphs: sequence of <<user_id, graph>>
    global_graph,     \* builder.global_graph
    export_data,      \* the structure export_for_gear dumps
    gear,             \* the GeARRetrieval instance: [global_graph, personal_graphs]
    result,           \* what the last retrieval call returned
    pc,               \* position in the pipeline
    compensated_sum   \* the interpreter's built-in sum() of floats is compensated
                      \* (CPython 3.12 and later) or plain (earlier versions)

vars == <<journeys, personal_graphs, global_graph, export_data, gear, result, pc,
          compensated_sum>>

----------------------------------------------------------------------------
(* Bounds of the model. *)

MaxEntries == 2       \* entries in the journey of the single-user pipeline
MaxDetections == 4    \* detections listed over the entries of that journey
MaxCohort == 11       \* journeys in a cohort
MaxTreated == 3       \* journeys of a cohort whose entries used an intervention
MaxQuery == 2         \* distortions listed in one retrieval query
MaxPattern == 5       \* distortions listed in one cascade query
MaxUsers == 3         \* users in the export the bundle engine loads
MaxTopK == 4          \* largest top_k asked for
MaxBatch == 2         \* journeys handed to one process_all_journeys call
MaxIds == 2           \* distinct user ids the journeys of the batches carry

----------------------------------------------------------------------------
(* Vocabularies and input values. *)

Distortions == {"catastrophizing", "fortune_telling"}

\* Python's ordering of the identifiers, as sorted() sees them.
SortedOrder == <<"catastrophizing", "fortune_telling", "labeling", "mind_reading">>

\* The keys of INTERVENTIONS.
Interventions ==
    {"thought_records", "behavioral_experiments", "examine_evidence",
     "cognitive_restructuring", "mindfulness", "exposure_therapy"}

\* INTERVENTIONS[iv]['targets'], for iv a key of INTERVENTIONS.
InterventionTargets(iv) ==
    CASE iv = "thought_records" ->
            {"all_or_nothing_thinking", "catastrophizing", "overgeneralization"}
      [] iv = "behavioral_experiments" ->
            {"fortune_telling", "mind_reading", "catastrophizing"}
      [] iv = "examine_evidence" ->
            {"mind_reading", "overgeneralization", "jumping_to_conclusions"}
      [] iv = "cognitive_restructuring" ->
            {"labeling", "should_statements", "emotional_reasoning"}
      [] iv = "mindfulness" ->
            {"rumination", "emotional_reasoning", "mental_filter"}
      [] iv = "exposure_therapy" ->
            {"catastrophizing", "fortune_telling"}

\* JOURNEY_TO_INTERVENTIONS[jt], for jt a key of JOURNEY_TEMPLATES.
JOURNEY_TO_INTERVENTIONS(jt) ==
    IF jt = "improving" THEN <<"thought_records", "examine_evidence">>
    ELSE IF jt = "plateauing" THEN <<"cognitive_restructuring", "mindfulness">>
    ELSE IF jt = "fluctuating" THEN <<"thought_records">>
    ELSE IF jt = "rapid_improvement"
    THEN <<"behavioral_experiments", "exposure_therapy", "examine_evidence">>
    ELSE <<>>

JourneyTypes == {"rapid_improvement", "worsening"}

\* Measured severities, detection confidences and the initial severity of a
\* profile, in tenths.
Severities == {2}
Confidences == {8}
InitialSeverity == 5

NoGraph == [nodes |-> <<>>, edges |-> <<>>, graph |-> <<>>]
NoExport == [exported |-> FALSE]
NoGear == [loaded |-> FALSE]
NoResult == [op |-> "none"]

----------------------------------------------------------------------------
(* Arithmetic helpers. *)

Min(a, b) == IF a <= b THEN a ELSE b

RECURSIVE SeqSum(_)
SeqSum(s) == IF s = <<>> THEN 0 ELSE Head(s) + SeqSum(Tail(s))

\* The sequence of n items x.
RECURSIVE Repeat(_, _)
Repeat(n, x) == IF n = 0 THEN <<>> ELSE Append(Repeat(n - 1, x), x)

\* The first position of s holding x.
PositionIn(s, x) == CHOOSE i \in DOMAIN s : s[i] = x /\ \A j \in 1..(i - 1) : s[j] # x

\* Number of positions of s holding x.
CountIn(s, x) == Cardinality({i \in DOMAIN s : s[i] = x})

RECURSIVE Concat(_)
Concat(ss) == IF ss = <<>> THEN <<>> ELSE Head(ss) \o Concat(Tail(ss))

\* The elements of a finite set in some order.
RECURSIVE SetToSeq(_)
SetToSeq(S) ==
    IF S = {} THEN <<>>
    ELSE LET x == CHOOSE y \in S : TRUE IN <<x>> \o SetToSeq(S \ {x})

----------------------------------------------------------------------------
(* Python floats.  A float is an IEEE 754 double; the model holds it as     *)
(* [neg, exp, hi, lo], standing for (-1)^neg * (hi * 2^26 + lo) * 2^exp    *)
(* with 2^26 <= hi < 2^27 and 0 <= lo < 2^26 (a 53-bit significand), and   *)
(* as [neg, 0, 0, 0] for the zero of either sign.  Every operation returns *)
(* the double nearest to its exact result, ties to the even significand,   *)
(* as the hardware does.  The magnitudes the program meets stay far from   *)
(* the subnormal and the overflow range, which are not modelled.           *)

RECURSIVE BitLengthIn(_, _)
BitLengthIn(n, width) ==
    IF width = 1 THEN n
    ELSE LET half == width \div 2
         IN  IF n >= 2^half THEN half + BitLengthIn(n \div 2^half, half)
             ELSE BitLengthIn(n, half)

BitLength(n) == BitLengthIn(n, 32)

Zero(neg) == [neg |-> neg, exp |-> 0, hi |-> 0, lo |-> 0]

IsZero(x) == x.hi = 0

PackCarried(neg, exp, hi1, lo1) ==
    IF hi1 = 2^27
    THEN [neg |-> neg, exp |-> exp + 1, hi |-> 2^26, lo |-> 0]
    ELSE [neg |-> neg, exp |-> exp, hi |-> hi1, lo |-> lo1 % 2^26]

PackRaised(neg, exp, high, low, lo1) ==
    PackCarried(neg, exp, high * 4 + low \div 2^26 + lo1 \div 2^26, lo1)

\* More than 53 bits: the s lowest go, to the nearest, ties to even.
PackRounded(neg, exp, high, low, rem, half) ==
    PackRaised(neg, exp, high, low,
               (low % 2^26)
                   + (IF rem > half \/ (rem = half /\ low % 2 = 1) THEN 1 ELSE 0))

\* From 28 to 53 bits: k zero bits are added below.
PackWidened(neg, exp, a, b, k) ==
    [neg |-> neg, exp |-> exp,
     hi |-> a * 2^k + b \div 2^(26 - k),
     lo |-> (b % 2^(26 - k)) * 2^k]

PackSized(neg, e, H, L, len) ==
    IF len = 0 THEN Zero(neg)
    ELSE IF len <= 27
    THEN [neg |-> neg, exp |-> e - (53 - len), hi |-> L * 2^(27 - len), lo |-> 0]
    ELSE IF len <= 53
    THEN PackWidened(neg, e - (53 - len), H * 4 + L \div 2^26, L % 2^26, 53 - len)
    ELSE PackRounded(neg, e + (len - 53), H \div 2^(len - 53),
                     L \div 2^(len - 53) + (H % 2^(len - 53)) * 2^(81 - len),
                     L % 2^(len - 53), 2^(len - 54))

\* The double nearest to (-1)^neg * (H * 2^28 + L) * 2^e, 0 <= L < 2^28.
Pack(neg, e, H, L) ==
    PackSized(neg, e, H, L, IF H = 0 THEN BitLength(L) ELSE 28 + BitLength(H))

Jam(L, lost) == IF lost /\ L % 2 = 0 THEN L + 1 ELSE L

FromInt(n) ==
    LET a == IF n < 0 THEN -n ELSE n
    IN  Pack(n < 0, 0, a \div 2^28, a % 2^28)

FNeg(x) == [x EXCEPT !.neg = ~@]

FAbs(x) == [x EXCEPT !.neg = FALSE]

\* a + b once b's significand is moved to a's exponent; both are held times 8
\* as (AH, AL) and (BH, BL), the bits b lost kept in the lowest one.
AddAligned(a, same, AH, AL, BH, BL) ==
    IF ~same /\ AH = BH /\ AL = BL THEN Zero(FALSE)
    ELSE Pack(a.neg, a.exp - 3,
              IF same THEN AH + BH + (AL + BL) \div 2^28
              ELSE AH - BH - (IF AL < BL THEN 1 ELSE 0),
              IF same THEN (AL + BL) % 2^28
              ELSE IF AL < BL THEN AL - BL + 2^28 ELSE AL - BL)

AddShifted(a, b, d, BH0, BL0) ==
    AddAligned(a, a.neg = b.neg, 2 * a.hi + a.lo \div 2^25, (a.lo % 2^25) * 8,
               IF d < 28 THEN BH0 \div 2^d ELSE 0,
               IF d < 28
               THEN Jam(BL0 \div 2^d + (BH0 % 2^d) * 2^(28 - d), BL0 % 2^d # 0)
               ELSE Jam(BH0 \div 2^(d - 28), BL0 # 0 \/ BH0 % 2^(d - 28) # 0))

\* a + b for |a| >= |b|, neither zero
AddOrdered(a, b) ==
    IF a.exp - b.exp > 55 THEN a
    ELSE AddShifted(a, b, a.exp - b.exp, 2 * b.hi + b.lo \div 2^25, (b.lo % 2^25) * 8)

AddCompared(x, y, xbig) == AddOrdered(IF xbig THEN x ELSE y, IF xbig THEN y ELSE x)

FAdd(x, y) ==
    IF IsZero(x) THEN (IF IsZero(y) THEN Zero(x.neg /\ y.neg) ELSE y)
    ELSE IF IsZero(y) THEN x
    ELSE AddCompared(x, y, \/ x.exp > y.exp
                           \/ /\ x.exp = y.exp
                              /\ (x.hi > y.hi \/ (x.hi = y.hi /\ x.lo >= y.lo)))

FSub(x, y) == FAdd(x, FNeg(y))

\* The four 13- and 14-bit limbs of a significand, lowest first.
Limbs(x) == <<x.lo % 2^13, x.lo \div 2^13, x.hi % 2^13, x.hi \div 2^13>>

\* Column sums, each with the carry of the column below it added.
RECURSIVE Carry13(_, _)
Carry13(cols, carry) ==
    IF cols = <<>> THEN <<>>
    ELSE <<Head(cols) + carry>> \o Carry13(Tail(cols), (Head(cols) + carry) \div 2^13)

MulCarried(neg, exp, t) ==
    Pack(neg, exp, t[7],
         Jam((t[6] % 2^13) * 2^15 + (t[5] % 2^13) * 4 + (t[4] % 2^13) \div 2^11,
             \/ (t[4] % 2^13) % 2^11 # 0
             \/ t[3] % 2^13 # 0 \/ t[2] % 2^13 # 0 \/ t[1] % 2^13 # 0))

MulLimbs(neg, exp, a, b) ==
    MulCarried(neg, exp,
               Carry13(<<a[1] * b[1],
                         a[1] * b[2] + a[2] * b[1],
                         a[1] * b[3] + a[2] * b[2] + a[3] * b[1],
                         a[1] * b[4] + a[2] * b[3] + a[3] * b[2] + a[4] * b[1],
                         a[2] * b[4] + a[3] * b[3] + a[4] * b[2],
                         a[3] * b[4] + a[4] * b[3],
                         a[4] * b[4]>>, 0))

FMul(x, y) ==
    IF IsZero(x) \/ IsZero(y) THEN Zero(x.neg # y.neg)
    ELSE MulLimbs(x.neg # y.neg, x.exp + y.exp + 50, Limbs(x), Limbs(y))

\* x / k for an integer 1 <= k < 2^17
\* The quotient (qa, qb) moved up by t bits, the bits below it taken from
\* the remainder v1 / k.
DivScaled(x, k, qa, qb, t, v1, c2) ==
    Pack(x.neg, x.exp - t,
         qa * 2^(t - 2) + qb \div 2^(28 - t),
         Jam((qb % 2^(28 - t)) * 2^t + (v1 \div k) * 2^c2 + ((v1 % k) * 2^c2) \div k,
             ((v1 % k) * 2^c2) % k # 0))

DivMeasured(x, k, qa, qb, u0, t, c1) ==
    DivScaled(x, k, qa, qb, t, (u0 % k) * 2^c1, t - c1)

DivQuotient(x, k, qa, qb, u0, t) ==
    DivMeasured(x, k, qa, qb, u0, t, IF t < 13 THEN t ELSE 13)

\* Long division of the limbs a by k; u holds the running remainders.
DivDigits(x, k, qa, qb, u0) == DivQuotient(x, k, qa, qb, u0, 30 - BitLength(qa))

DivU0(x, k, a, u2, u1, u0) ==
    DivDigits(x, k, (a[4] \div k) * 2^13 + u2 \div k, (u1 \div k) * 2^13 + u0 \div k, u0)

DivU1(x, k, a, u2, u1) == DivU0(x, k, a, u2, u1, (u1 % k) * 2^13 + a[1])

DivU2(x, k, a, u2) == DivU1(x, k, a, u2, (u2 % k) * 2^13 + a[2])

FDivInt(x, k) ==
    IF IsZero(x) THEN x
    ELSE DivU2(x, k, Limbs(x), (Limbs(x)[4] % k) * 2^13 + Limbs(x)[3])

FromRatio(n, d) == FDivInt(FromInt(n), d)

FLess(x, y) ==
    IF IsZero(x) /\ IsZero(y) THEN FALSE
    ELSE IF IsZero(x) THEN ~y.neg
    ELSE IF IsZero(y) THEN x.neg
    ELSE IF x.neg # y.neg THEN x.neg
    ELSE LET below == \/ x.exp < y.exp
                      \/ /\ x.exp = y.exp
                         /\ (x.hi < y.hi \/ (x.hi = y.hi /\ x.lo < y.lo))
         IN  IF x.neg THEN ~below /\ x # y ELSE below

FEq(x, y) == (IsZero(x) /\ IsZero(y)) \/ x = y

\* (g[1] + g[2] * 2^26 + g[3] * 2^52) / 2^s to the nearest integer, s >= 1
LimbAt(g, i) == IF i \in 1..3 THEN g[i] ELSE 0

LimbPart(g, i, sh) == IF LimbAt(g, i) = 0 THEN 0 ELSE LimbAt(g, i) * 2^sh

RoundNearest(whole, top, half, rest) ==
    whole + (IF top > half \/ (top = half /\ (rest \/ whole % 2 = 1)) THEN 1 ELSE 0)

RoundSplit(g, w, r) ==
    RoundNearest(LimbAt(g, w + 1) \div 2^r + LimbPart(g, w + 2, 26 - r)
                     + LimbPart(g, w + 3, 52 - r),
                 IF r > 0 THEN LimbAt(g, w + 1) % 2^r ELSE LimbAt(g, w),
                 IF r > 0 THEN 2^(r - 1) ELSE 2^25,
                 \E i \in 1..3 : i < (IF r > 0 THEN w + 1 ELSE w) /\ g[i] # 0)

RoundHalfEven(g, s) == RoundSplit(g, s \div 26, s % 26)

Signed(neg, k) == IF neg THEN -k ELSE k

NpNearest(x, k) ==
    IF IsZero(x) \/ k = 0 THEN Zero(x.neg) ELSE FDivInt(FromInt(Signed(x.neg, k)), 1000)

NpScaled(x, y) ==
    NpNearest(x, RoundHalfEven(<<y.lo, y.hi % 2^26, y.hi \div 2^26>>, -y.exp))

NpRound3(x) == NpScaled(x, FMul(x, FromInt(1000)))

PyNearest(x, k) == IF k = 0 THEN Zero(x.neg) ELSE FromRatio(Signed(x.neg, k), 1000)

PyScaled(x, u) ==
    PyNearest(x, RoundHalfEven(<<(u[1] % 2^13) + (u[2] % 2^13) * 2^13,
                                 (u[3] % 2^13) + (u[4] % 2^13) * 2^13,
                                 u[4] \div 2^13>>, -(x.exp + 3)))

PyRound3(x) ==
    IF IsZero(x) \/ x.exp >= -3 THEN x
    ELSE PyScaled(x, Carry13([i \in 1..4 |-> Limbs(x)[i] * 125], 0))

\* The float the literal 0.k or k/10 denotes: the double nearest to k/10.
Tenth(k) == FromRatio(k, 10)

\* acc after `for x in values: acc += x`
RECURSIVE FSumFrom(_, _)
FSumFrom(acc, values) ==
    IF values = <<>> THEN acc ELSE FSumFrom(FAdd(acc, Head(values)), Tail(values))

\* What the addition total + x = t lost to rounding.
Lost(total, x, t) ==
    IF FLess(FAbs(total), FAbs(x)) THEN FAdd(FSub(x, t), total)
    ELSE FAdd(FSub(total, t), x)

\* The compensated sum (Neumaier's): the additions are made left to right,
\* what each one lost is added up in c, and a c other than zero is added to
\* the total at the end.
RECURSIVE CompensatedFrom(_, _, _)
CompensatedFrom(total, c, values) ==
    IF values = <<>> THEN (IF IsZero(c) THEN total ELSE FAdd(total, c))
    ELSE CompensatedFrom(FAdd(total, Head(values)),
                         FAdd(c, Lost(total, Head(values), FAdd(total, Head(values)))),
                         Tail(values))

\* The built-in sum(values) of a non-empty list of floats.  It starts from the
\* int 0 and adds the first item to it; the items after it are added left to
\* right on CPython before 3.12 and by the compensated sum from 3.12 on.
builtin_sum(values) ==
    IF compensated_sum
    THEN CompensatedFrom(FAdd(FromInt(0), Head(values)), Zero(FALSE), Tail(values))
    ELSE FSumFrom(FromInt(0), values)

----------------------------------------------------------------------------
(* Journey dicts, as generate_user_journey returns them.  Of a journey the  *)
(* model keeps the keys the builder reads.  Two of them are not in the     *)
(* generator's dict: user_profile['assigned_interventions'] and            *)
(* entry['interventions_used'] are set by add_interventions_to_data; the   *)
(* builder reads both with .get(key, []), and the journey holds [] for     *)
(* them until they are set.                                                *)

\* The k-th user id the generator hands out ("user_10001" is 10001).
UserId(k) == 10000 + k

\* An entry measured at sev tenths, before any detection is listed.
NewEntry(sev) ==
    [distortions |-> <<>>, measured_severity |-> Tenth(sev),
     interventions_used |-> <<>>]

\* final_severity is the last measured severity, the int 0 without entries;
\* improvement = initial_severity - final_severity.
MakeJourney(uid, jt, entries) ==
    LET final == IF entries # <<>> THEN entries[Len(entries)].measured_severity
                 ELSE FromInt(0)
    IN  [user_profile |-> [user_id |-> uid, assigned_interventions |-> <<>>],
         journey_type |-> jt,
         entries |-> entries,
         initial_severity |-> Tenth(InitialSeverity),
         final_severity |-> final,
         improvement |-> FSub(Tenth(InitialSeverity), final)]

\* distortions_in_entry = [d['type'] for d in entry['distortions']]
TypesOf(entry) == [i \in DOMAIN entry.distortions |-> entry.distortions[i].type]

AllEntries(js) == Concat([k \in DOMAIN js |-> js[k].entries])

----------------------------------------------------------------------------
(* add_interventions_to_data: every journey gets the interventions of its  *)
(* journey type, every entry one or two of those that target one of its    *)
(* distortions, drawn at random.                                           *)

\* The matches dict as its items in insertion order: <<key, overlap>> for each
\* available intervention that targets at least one of the distortions.
get_matching_interventions(distortions, available_interventions) ==
    LET listed == {distortions[i] : i \in DOMAIN distortions}
        overlap(iv) == Cardinality(listed \cap InterventionTargets(iv))
        kept == SelectSeq(available_interventions, LAMBDA iv : overlap(iv) > 0)
    IN  [i \in DOMAIN kept |-> <<kept[i], overlap(kept[i])>>]

\* random.sample(population, k): k different positions, in any order.
Samples(population, k) ==
    {[i \in 1..k |-> population[pos[i]]] :
        pos \in {f \in [1..k -> DOMAIN population] :
                    \A i, j \in 1..k : i # j => f[i] # f[j]}}

\* The lists assign_interventions_to_entry can return: a sample of
\* min(random.randint(1, 2), len(matching)) of the matching keys, [] when
\* nothing matches.
assign_interventions_to_entry(entry, journey_interventions) ==
    LET matching == get_matching_interventions(
                        [i \in DOMAIN entry.distortions |-> entry.distortions[i].type],
                        journey_interventions)
        keys == [i \in DOMAIN matching |-> matching[i][1]]
    IN  IF matching # <<>>
        THEN UNION {Samples(keys, Min(n, Len(matching))) : n \in 1..2}
        ELSE {<<>>}

\* The journey after the loop body of lines 88-119, the entries having drawn
\* the lists used[k].  The keys intervention_active and intervention_stats,
\* which the builder does not read, are not kept.
AssignedJourney(journey, used) ==
    [journey EXCEPT
        !.user_profile.assigned_interventions =
            JOURNEY_TO_INTERVENTIONS(journey.journey_type),
        !.entries = [k \in DOMAIN journey.entries |->
                        [journey.entries[k] EXCEPT !.interventions_used = used[k]]]]

\* The journeys the loop body can leave for one journey of the input file.
AssignedJourneys(journey) ==
    LET assigned == JOURNEY_TO_INTERVENTIONS(journey.journey_type)
        choices == [k \in DOMAIN journey.entries |->
                       assign_interventions_to_entry(journey.entries[k], assigned)]
        drawn == {used \in [DOMAIN journey.entries ->
                                UNION {choices[k] : k \in DOMAIN journey.entries}] :
                    \A k \in DOMAIN journey.entries : used[k] \in choices[k]}
    IN  {AssignedJourney(journey, used) : used \in drawn}

\* 'percentage': len(entries_with_interventions) / len(journey['entries']) * 100
\* divides by zero for a journey without entries.
AddInterventionsRaises(data) == \E k \in DOMAIN data : data[k].entries = <<>>

ZeroDivisionError == [error |-> "ZeroDivisionError"]

\* The lists add_interventions_to_data can write to the output file.
RECURSIVE add_interventions_to_data(_)
add_interventions_to_data(data) ==
    IF data = <<>> THEN {<<>>}
    ELSE {<<journey>> \o rest :
            journey \in AssignedJourneys(Head(data)),
            rest \in add_interventions_to_data(Tail(data))}

----------------------------------------------------------------------------
(* build_personal_graph *)

\* Times the ordered pair (d1, d2) is met by the loops over idx and idx+1..
OrderedPairsIn(types, d1, d2) ==
    Cardinality({p \in (DOMAIN types) \X (DOMAIN types) :
                    p[1] < p[2] /\ types[p[1]] = d1 /\ types[p[2]] = d2})

SeenDistortionsFirstListed(entries) ==
    UNION {{entries[k].distortions[i].type : i \in DOMAIN entries[k].distortions \cap {1}}
           : k \in DOMAIN entries}

SeenDistortions(entries) ==
    UNION {{entries[k].distortions[i].type : i \in DOMAIN entries[k].distortions}
           : k \in DOMAIN entries}

SeenInterventions(entries) ==
    UNION {{entries[k].interventions_used[i] : i \in DOMAIN entries[k].interventions_used}
           : k \in DOMAIN entries}

Occurrences(entries, d) ==
    SeqSum([k \in DOMAIN entries |-> CountIn(TypesOf(entries[k]), d)])

\* total_confidence starts at 0.0 and grows by d['confidence'] at every
\* detection of d, in listing order.
TotalConfidence(entries, d) ==
    LET detections == Concat([k \in DOMAIN entries |-> entries[k].distortions])
        listed == SelectSeq(detections, LAMBDA det : det.type = d)
    IN  FSumFrom(Zero(FALSE), [i \in DOMAIN listed |-> listed[i].confidence])

PersonalPairCountLastEntry(entries, d1, d2) ==
    IF entries = <<>> THEN 0
    ELSE OrderedPairsIn(TypesOf(entries[Len(entries)]), d1, d2)

\* distortion_pairs[(d1, d2)] after the pass: keyed by the pair in listing order.
PersonalPairCount(entries, d1, d2) ==
    SeqSum([k \in DOMAIN entries |-> OrderedPairsIn(TypesOf(entries[k]), d1, d2)])

Uses(entries, iv) ==
    SeqSum([k \in DOMAIN entries |-> CountIn(entries[k].interventions_used, iv)])

AddressesCountOncePerJourney(entries, iv, d) ==
    IF \E k \in DOMAIN entries :
            CountIn(entries[k].interventions_used, iv) * CountIn(TypesOf(entries[k]), d) > 0
    THEN 1 ELSE 0

\* Weight of the addresses edge iv -> d: one per use of iv and listed detection of d.
AddressesCount(entries, iv, d) ==
    SeqSum([k \in DOMAIN entries |->
        CountIn(entries[k].interventions_used, iv) * CountIn(TypesOf(entries[k]), d)])

SeverityChangesToLast(entries, iv) ==
    Concat([k \in DOMAIN entries |->
        IF k < Len(entries)
        THEN [u \in 1..CountIn(entries[k].interventions_used, iv) |->
                 FSub(entries[Len(entries)].measured_severity,
                      entries[k].measured_severity)]
        ELSE <<>>])

\* intervention_effectiveness[iv]['severity_changes']
SeverityChanges(entries, iv) ==
    Concat([k \in DOMAIN entries |->
        IF k < Len(entries)
        THEN [u \in 1..CountIn(entries[k].interventions_used, iv) |->
                 FSub(entries[k + 1].measured_severity,
                      entries[k].measured_severity)]
        ELSE <<>>])

PersonalCoOccursKeys(entries) ==
    {p \in SeenDistortions(entries) \X SeenDistortions(entries) :
        PersonalPairCount(entries, p[1], p[2]) >= 2}

PersonalAddressesKeys(entries) ==
    {p \in SeenInterventions(entries) \X SeenDistortions(entries) :
        AddressesCount(entries, p[1], p[2]) >= 1}

\* avg_change = sum(changes) / len(changes); effectiveness_score = -avg_change
PersonalInterventionNode(entries, iv) ==
    LET changes == SeverityChanges(entries, iv)
        base == [node_type |-> "intervention", uses |-> Uses(entries, iv)]
        avg_change == FDivInt(builtin_sum(changes), Len(changes))
    IN  IF changes # <<>>
        THEN [node_type |-> "intervention", uses |-> Uses(entries, iv),
              avg_severity_change |-> avg_change,
              effectiveness_score |-> FNeg(avg_change)]
        ELSE base

build_personal_graph(journey) ==
    LET entries == journey.entries
        ds == SeenDistortions(entries)
        ivs == SeenInterventions(entries)
        co == PersonalCoOccursKeys(entries)
        ad == PersonalAddressesKeys(entries)
    IN  [nodes |-> [n \in ds \cup ivs |->
                       IF n \in ds
                       THEN [node_type |-> "distortion",
                             occurrences |-> Occurrences(entries, n),
                             total_confidence |-> TotalConfidence(entries, n)]
                       ELSE PersonalInterventionNode(entries, n)],
         edges |-> [e \in ad \cup co |->
                       IF e \in co
                       THEN [weight |-> PersonalPairCount(entries, e[1], e[2]),
                             edge_type |-> "co_occurs"]
                       ELSE [weight |-> AddressesCount(entries, e[1], e[2]),
                             edge_type |-> "addresses"]],
         graph |-> [user_id |-> journey.user_profile.user_id,
                    journey_type |-> journey.journey_type,
                    initial_severity |-> journey.initial_severity,
                    final_severity |-> journey.final_severity,
                    improvement |-> journey.improvement,
                    interventions_assigned |->
                        journey.user_profile.assigned_interventions]]

----------------------------------------------------------------------------
(* build_global_intervention_graph *)

Rank(d) == CHOOSE i \in DOMAIN SortedOrder : SortedOrder[i] = d

\* tuple(sorted([d1, d2]))
SortedPair(d1, d2) == IF Rank(d1) <= Rank(d2) THEN <<d1, d2>> ELSE <<d2, d1>>

\* distortion_cooccurrence[edge] after the pass over all entries; edge is a sorted pair.
GlobalPairCount(entries, edge) ==
    SeqSum([k \in DOMAIN entries |->
        Cardinality({p \in (DOMAIN entries[k].distortions) \X (DOMAIN entries[k].distortions) :
            /\ p[1] < p[2]
            /\ SortedPair(TypesOf(entries[k])[p[1]], TypesOf(entries[k])[p[2]]) = edge})])

\* improvement > 0
Improved(journey) == FLess(FromInt(0), journey.improvement)

\* intervention_outcomes[iv]['total_improvement']: it starts at the int 0 and
\* grows by the journey's improvement at every entry-level use of iv, journey
\* by journey, in journeys with improvement > 0.
OutcomeTotal(js, iv) ==
    FSumFrom(FromInt(0),
        Concat([k \in DOMAIN js |->
            IF Improved(js[k])
            THEN [u \in 1..Uses(js[k].entries, iv) |-> js[k].improvement]
            ELSE <<>>]))

OutcomeCount(js, iv) ==
    SeqSum([k \in DOMAIN js |->
        IF Improved(js[k]) THEN Uses(js[k].entries, iv) ELSE 0])

\* total_improvement / count, the int 0 when count is 0.
AvgImprovement(js, iv) ==
    IF OutcomeCount(js, iv) > 0
    THEN FDivInt(OutcomeTotal(js, iv), OutcomeCount(js, iv))
    ELSE FromInt(0)

\* threshold = len(all_journeys) * 0.1
Threshold(n) == FMul(FromInt(n), Tenth(1))

MeetsThresholdStrict(count, n) == FLess(Threshold(n), FromInt(count))

\* count >= threshold
MeetsThreshold(count, n) == ~FLess(FromInt(count), Threshold(n))

GlobalCoOccursKeysPersonalRule(js) ==
    LET entries == AllEntries(js)
        ds == SeenDistortions(entries)
    IN  {e \in {SortedPair(p[1], p[2]) : p \in ds \X ds} :
            GlobalPairCount(entries, e) >= 2}

GlobalCoOccursKeys(js) ==
    LET entries == AllEntries(js)
        ds == SeenDistortions(entries)
    IN  {e \in {SortedPair(p[1], p[2]) : p \in ds \X ds} :
            /\ GlobalPairCount(entries, e) >= 1
            /\ MeetsThreshold(GlobalPairCount(entries, e), Len(js))}

GlobalTargetsKeysAnyUse(js) ==
    LET entries == AllEntries(js)
    IN  {p \in SeenInterventions(entries) \X SeenDistortions(entries) :
            AddressesCount(entries, p[1], p[2]) >= 1}

GlobalTargetsKeys(js) ==
    LET entries == AllEntries(js)
    IN  {p \in SeenInterventions(entries) \X SeenDistortions(entries) :
            AddressesCount(entries, p[1], p[2]) >= 2}

build_global_intervention_graph(js) ==
    LET entries == AllEntries(js)
        ds == SeenDistortions(entries)
        ivs == SeenInterventions(entries)
        co == GlobalCoOccursKeys(js)
        tg == GlobalTargetsKeys(js)
    IN  [nodes |-> [n \in ds \cup ivs |->
                       IF n \in ivs
                       THEN [node_type |-> "intervention",
                             avg_improvement |-> AvgImprovement(js, n)]
                       ELSE [node_type |-> "distortion",
                             total_occurrences |-> Occurrences(entries, n),
                             total_confidence |-> TotalConfidence(entries, n)]],
         edges |-> [e \in co \cup tg |->
                       IF e \in tg
                       THEN [weight |-> AddressesCount(entries, e[1], e[2]),
                             edge_type |-> "targets",
                             effectiveness |-> AvgImprovement(js, e[1])]
                       ELSE [weight |-> GlobalPairCount(entries, e),
                             edge_type |-> "co_occurs"]],
         graph |-> <<>>]

----------------------------------------------------------------------------
(* process_all_journeys: self.personal_graphs is a dict kept in insertion  *)
(* order, modelled as a sequence of <<user_id, graph>> with distinct ids.  *)

DictKeys(dict) == {dict[i][1] : i \in DOMAIN dict}

DictGet(dict, key) == dict[CHOOSE i \in DOMAIN dict : dict[i][1] = key][2]

DictSet(dict, key, val) ==
    IF key \in DictKeys(dict)
    THEN [i \in DOMAIN dict |-> IF dict[i][1] = key THEN <<key, val>> ELSE dict[i]]
    ELSE Append(dict, <<key, val>>)

RECURSIVE StorePersonalGraphs(_, _)
StorePersonalGraphs(dict, js) ==
    IF js = <<>> THEN dict
    ELSE StorePersonalGraphs(
            DictSet(dict, Head(js).user_profile.user_id, build_personal_graph(Head(js))),
            Tail(js))

----------------------------------------------------------------------------
(* export_for_gear and GeARRetrieval.__init__ / _build_networkx_graph *)

\* {'id': node, 'type': attrs.get('node_type'), **{k: v for k != 'node_type'}}
ExportNode(n, attrs) ==
    [k \in {"id", "type"} \cup (DOMAIN attrs \ {"node_type"}) |->
        IF k \in DOMAIN attrs \ {"node_type"} THEN attrs[k]
        ELSE IF k = "id" THEN n
        ELSE IF "node_type" \in DOMAIN attrs THEN attrs.node_type ELSE "None"]

\* {'source': u, 'target': v, **G[u][v]}
ExportEdge(e, attrs) ==
    [k \in {"source", "target"} \cup DOMAIN attrs |->
        IF k \in DOMAIN attrs THEN attrs[k]
        ELSE IF k = "source" THEN e[1] ELSE e[2]]

ExportGraph(G) ==
    [nodes |-> {ExportNode(n, G.nodes[n]) : n \in DOMAIN G.nodes},
     edges |-> {ExportEdge(e, G.edges[e]) : e \in DOMAIN G.edges}]

ExportPersonal(G) ==
    [nodes |-> ExportGraph(G).nodes,
     edges |-> ExportGraph(G).edges,
     metadata |-> G.graph]

export_for_gear(pgs, gg) ==
    [exported |-> TRUE,
     personal_graphs |-> [i \in DOMAIN pgs |-> <<pgs[i][1], ExportPersonal(pgs[i][2])>>],
     global_graph |-> ExportGraph(gg),
     intervention_effectiveness |->
        [n \in {m \in DOMAIN gg.nodes : gg.nodes[m].node_type = "intervention"} |->
            [avg_improvement |-> gg.nodes[n].avg_improvement,
             targets |-> {e[2] : e \in {f \in DOMAIN gg.edges :
                             f[1] = n /\ gg.edges[f].edge_type = "targets"}}]],
     metadata |-> [num_users |-> Len(pgs)]]

\* G.add_node(node['id'], **{k: v for k != 'id'})
LoadNodeAttrs(node) == [k \in DOMAIN node \ {"id"} |-> node[k]]

LoadEdgeAttrsDefaultWeight(edge) == [weight |-> 1]

LoadEdgeAttrsWithoutWeight(edge) ==
    [k \in DOMAIN edge \ {"source", "target", "weight"} |-> edge[k]]

\* G.add_edge(edge['source'], edge['target'], weight=edge.get('weight', 1))
LoadEdgeAttrs(edge) ==
    [weight |-> IF "weight" \in DOMAIN edge THEN edge.weight ELSE 1]

\* An element of the nodes list that is not a dict is a plain id x; it is
\* written [plain |-> x].
IsDict(node) == "plain" \notin DOMAIN node

NodeId(node) == IF IsDict(node) THEN node.id ELSE node.plain

\* dict.update: the keys of new overwrite those of old.
Updated(old, new) ==
    [k \in DOMAIN old \cup DOMAIN new |-> IF k \in DOMAIN new THEN new[k] ELSE old[k]]

\* G.add_node(n, **attrs) / the end points G.add_edge makes sure of: a node
\* already there keeps its attributes and takes the new ones on top.
WithNode(G, n, attrs) ==
    [G EXCEPT !.nodes =
        [m \in DOMAIN G.nodes \cup {n} |->
            IF m # n THEN G.nodes[m]
            ELSE Updated(IF n \in DOMAIN G.nodes THEN G.nodes[n] ELSE <<>>, attrs)]]

\* G.add_edge(u, v, **attrs): an edge already there takes the new attributes
\* on top of its own.
WithEdge(G, e, attrs) ==
    LET H == WithNode(WithNode(G, e[1], <<>>), e[2], <<>>)
    IN  [H EXCEPT !.edges =
            [f \in DOMAIN H.edges \cup {e} |->
                IF f # e THEN H.edges[f]
                ELSE Updated(IF e \in DOMAIN H.edges THEN H.edges[e] ELSE <<>>, attrs)]]

\* for node in nodes: ...
RECURSIVE AddNodes(_, _)
AddNodes(G, nodes) ==
    IF nodes = <<>> THEN G
    ELSE AddNodes(WithNode(G, NodeId(Head(nodes)),
                           IF IsDict(Head(nodes)) THEN LoadNodeAttrs(Head(nodes)) ELSE <<>>),
                  Tail(nodes))

\* for edge in edges: ...
RECURSIVE AddEdges(_, _)
AddEdges(G, edges) ==
    IF edges = <<>> THEN G
    ELSE AddEdges(WithEdge(G, <<Head(edges).source, Head(edges).target>>,
                           LoadEdgeAttrs(Head(edges))),
                  Tail(edges))

\* nodes and edges are the two lists of the file, in the file's order.
_build_networkx_graph(nodes, edges) == AddEdges(AddNodes(NoGraph, nodes), edges)

\* The export keeps each list of the file as the set of its dicts (within a
\* list the ids, and the end points, are all different); the constructor is
\* given a listing of it.
JsonList(dicts) == SetToSeq(dicts)

\* G.graph.update(user_data['metadata'])
LoadPersonal(user_data) ==
    [_build_networkx_graph(JsonList(user_data.nodes), JsonList(user_data.edges))
        EXCEPT !.graph = Updated(@, user_data.metadata)]

GeARRetrieval(data) ==
    [loaded |-> TRUE,
     global_graph |-> _build_networkx_graph(JsonList(data.global_graph.nodes),
                                           JsonList(data.global_graph.edges)),
     personal_graphs |->
        [i \in DOMAIN data.personal_graphs |->
            <<data.personal_graphs[i][1], LoadPersonal(data.personal_graphs[i][2])>>]]

----------------------------------------------------------------------------
(* GeARRetrieval: the query graph and the networkx centralities it uses.   *)

\* Node order of the query graph: first occurrences, in list order.
RECURSIVE NodeOrder(_)
NodeOrder(distortions) ==
    IF distortions = <<>> THEN <<>>
    ELSE LET front == NodeOrder(SubSeq(distortions, 1, Len(distortions) - 1))
             last == distortions[Len(distortions)]
         IN  IF CountIn(front, last) > 0 THEN front ELSE Append(front, last)

ExtractIgnoringOrder(gg, distortions) ==
    LET hits == {p \in (DOMAIN distortions) \X (DOMAIN distortions) :
                    /\ p[1] # p[2]
                    /\ <<distortions[p[1]], distortions[p[2]]>> \in DOMAIN gg.edges}
        keys == {<<distortions[p[1]], distortions[p[2]]>> : p \in hits}
    IN  [nodes |-> [n \in {distortions[i] : i \in DOMAIN distortions} |-> <<>>],
         edges |-> [k \in keys |-> [weight |-> gg.edges[k].weight]],
         graph |-> <<>>]

ExtractAdjacentOnly(gg, distortions) ==
    LET hits == {p \in (DOMAIN distortions) \X (DOMAIN distortions) :
                    /\ p[2] = p[1] + 1
                    /\ <<distortions[p[1]], distortions[p[2]]>> \in DOMAIN gg.edges}
        keys == {<<distortions[p[1]], distortions[p[2]]>> : p \in hits}
    IN  [nodes |-> [n \in {distortions[i] : i \in DOMAIN distortions} |-> <<>>],
        edges |-> [k \in keys |-> [weight |-> gg.edges[k].weight]],
        graph |-> <<>>]

extract_user_pattern(gg, distortions) ==
    LET hits == {p \in (DOMAIN distortions) \X (DOMAIN distortions) :
                    /\ p[1] < p[2]
                    /\ <<distortions[p[1]], distortions[p[2]]>> \in DOMAIN gg.edges}
        keys == {<<distortions[p[1]], distortions[p[2]]>> : p \in hits}
    IN  [nodes |-> [n \in {distortions[i] : i \in DOMAIN distortions} |-> <<>>],
         edges |-> [k \in keys |-> [weight |-> gg.edges[k].weight]],
         graph |-> <<>>]

\* self.global_graph[d1][d2]['weight']: the subscript raises KeyError when an
\* edge the query copies carries no weight.
ExtractRaises(gg, distortions) ==
    \E i, j \in DOMAIN distortions :
        /\ i < j
        /\ <<distortions[i], distortions[j]>> \in DOMAIN gg.edges
        /\ "weight" \notin DOMAIN gg.edges[<<distortions[i], distortions[j]>>]

\* What the caller is left with when extract_user_pattern raises: no query
\* method catches the exception.
KeyError == [error |-> "KeyError"]

DegreeOutTwice(G, n) == 2 * Cardinality({e \in DOMAIN G.edges : e[1] = n})

\* G.degree(n) of a DiGraph: in-degree plus out-degree, a self-loop counting twice.
Degree(G, n) ==
    Cardinality({e \in DOMAIN G.edges : e[1] = n})
        + Cardinality({e \in DOMAIN G.edges : e[2] = n})

\* The edges of the query graph in the order extract_user_pattern adds them.
RECURSIVE EdgeOrderFrom(_, _, _, _, _)
EdgeOrderFrom(gg, distortions, i, j, acc) ==
    IF i > Len(distortions) THEN acc
    ELSE IF j > Len(distortions) THEN EdgeOrderFrom(gg, distortions, i + 1, i + 2, acc)
    ELSE LET e == <<distortions[i], distortions[j]>>
         IN  EdgeOrderFrom(gg, distortions, i, j + 1,
                IF e \in DOMAIN gg.edges /\ CountIn(acc, e) = 0 THEN Append(acc, e) ELSE acc)

EdgeOrder(gg, distortions) == EdgeOrderFrom(gg, distortions, 1, 2, <<>>)

\* The successors of u in adjacency order: the order their edges were added.
RECURSIVE Successors(_, _)
Successors(order, u) ==
    IF order = <<>> THEN <<>>
    ELSE IF Head(order)[1] = u THEN <<Head(order)[2]>> \o Successors(Tail(order), u)
    ELSE Successors(Tail(order), u)

\* networkx.degree_centrality: {n: 1} for a graph of at most one node, else
\* s = 1.0 / (len(G) - 1.0) and {n: d * s}.
degree_centrality(G) ==
    LET size == Cardinality(DOMAIN G.nodes)
        s == FromRatio(1, size - 1)
    IN  [n \in DOMAIN G.nodes |->
            IF size <= 1 THEN FromInt(1) ELSE FMul(FromInt(Degree(G, n)), s)]

\* Directed simple paths of G from s to t (s # t), as node sequences.
SimplePaths(G, s, t) ==
    LET V == DOMAIN G.nodes
    IN  UNION {{p \in [1..k -> V] :
                    /\ p[1] = s
                    /\ p[k] = t
                    /\ \A i, j \in 1..k : i # j => p[i] # p[j]
                    /\ \A i \in 1..(k - 1) : <<p[i], p[i + 1]>> \in DOMAIN G.edges}
               : k \in 2..Cardinality(V)}

\* networkx betweenness (Brandes).  Nodes are named by their position in the
\* graph's node order; succ[v] lists the successors of v in adjacency order.
\* The search state is [Q, S, D, sigma, P] as in the source: D[w] is -1 while
\* w is not in D, and sigma, a float count of shortest paths in the source,
\* is kept as the integer it equals.

\* for w in G[v]: ..., over the successors ws still to visit.
RECURSIVE VisitSuccessors(_, _, _)
VisitSuccessors(st, v, ws) ==
    IF ws = <<>> THEN st
    ELSE LET w == Head(ws)
             st1 == IF st.D[w] < 0
                    THEN [st EXCEPT !.Q = Append(@, w), !.D[w] = st.D[v] + 1]
                    ELSE st
             st2 == IF st1.D[w] = st.D[v] + 1
                    THEN [st1 EXCEPT !.sigma[w] = @ + st.sigma[v],
                                     !.P[w] = Append(@, v)]
                    ELSE st1
         IN  VisitSuccessors(st2, v, Tail(ws))

\* while Q: v = Q.popleft(); S.append(v); ...
RECURSIVE ShortestPathLoop(_, _)
ShortestPathLoop(succ, st) ==
    IF st.Q = <<>> THEN st
    ELSE LET v == Head(st.Q)
         IN  ShortestPathLoop(succ,
                VisitSuccessors([st EXCEPT !.Q = Tail(@), !.S = Append(@, v)],
                                v, succ[v]))

_single_source_shortest_path_basic(succ, s) ==
    LET n == Len(succ)
    IN  ShortestPathLoop(succ,
            [Q |-> <<s>>,
             S |-> <<>>,
             D |-> [Repeat(n, -1) EXCEPT ![s] = 0],
             sigma |-> [Repeat(n, 0) EXCEPT ![s] = 1],
             P |-> Repeat(n, <<>>)])

\* for v in P[w]: delta[v] += sigma[v] * coeff
RECURSIVE AddDependencies(_, _, _, _)
AddDependencies(delta, preds, sigma, coeff) ==
    IF preds = <<>> THEN delta
    ELSE AddDependencies(
            [delta EXCEPT ![Head(preds)] = FAdd(@, FMul(FromInt(sigma[Head(preds)]), coeff))],
            Tail(preds), sigma, coeff)

\* while S: w = S.pop(); coeff = (1 + delta[w]) / sigma[w]; ...
RECURSIVE AccumulateLoop(_, _, _, _)
AccumulateLoop(betweenness, st, delta, s) ==
    IF st.S = <<>> THEN betweenness
    ELSE LET w == st.S[Len(st.S)]
             coeff == FDivInt(FAdd(FromInt(1), delta[w]), st.sigma[w])
             delta1 == AddDependencies(delta, st.P[w], st.sigma, coeff)
         IN  AccumulateLoop(
                IF w # s THEN [betweenness EXCEPT ![w] = FAdd(@, delta1[w])]
                ELSE betweenness,
                [st EXCEPT !.S = SubSeq(@, 1, Len(@) - 1)], delta1, s)

_accumulate_basic(betweenness, st, s) ==
    AccumulateLoop(betweenness, st, Repeat(Len(betweenness), FromInt(0)), s)

\* for s in nodes: ..., over the sources s..n.
RECURSIVE BetweennessFrom(_, _, _)
BetweennessFrom(betweenness, succ, s) ==
    IF s > Len(succ) THEN betweenness
    ELSE BetweennessFrom(
            _accumulate_basic(betweenness,
                              _single_source_shortest_path_basic(succ, s), s),
            succ, s + 1)

\* _rescale, normalized and directed: no scale for n <= 2, else every value
\* is multiplied by scale = 1 / ((n - 1) * (n - 2)).
_rescale(betweenness) ==
    LET n == Len(betweenness)
        scale == FromRatio(1, (n - 1) * (n - 2))
    IN  IF n <= 2 THEN betweenness
        ELSE [v \in 1..n |-> FMul(betweenness[v], scale)]

\* networkx.betweenness_centrality(G): normalized, unweighted, endpoints
\* excluded.  G is given by its nodes in node order and its edges in the order
\* they were added.
betweenness_centrality(nodes, edges) ==
    LET n == Len(nodes)
        succ == [v \in 1..n |->
                    LET names == Successors(edges, nodes[v])
                    IN  [i \in DOMAIN names |-> PositionIn(nodes, names[i])]]
        scaled == _rescale(BetweennessFrom(Repeat(n, Zero(FALSE)), succ, 1))
    IN  [x \in {nodes[v] : v \in 1..n} |-> scaled[PositionIn(nodes, x)]]

\* sorted(items, key=score, reverse=True) for float scores: by score
\* descending, equal scores in the order of items (the sort is stable).
RECURSIVE SortByScoreDesc(_)
SortByScoreDesc(items) ==
    IF items = <<>> THEN <<>>
    ELSE LET best == CHOOSE i \in DOMAIN items :
                        /\ \A j \in DOMAIN items : ~FLess(items[i][2], items[j][2])
                        /\ \A j \in 1..(i - 1) : FLess(items[j][2], items[i][2])
         IN  <<items[best]>> \o
             SortByScoreDesc([j \in 1..(Len(items) - 1) |->
                                 IF j < best THEN items[j] ELSE items[j + 1]])

\* The same for int scores (the weights of cascades).
RECURSIVE SortByWeightDesc(_)
SortByWeightDesc(items) ==
    IF items = <<>> THEN <<>>
    ELSE LET best == CHOOSE i \in DOMAIN items :
                        /\ \A j \in DOMAIN items : items[i][2] >= items[j][2]
                        /\ \A j \in 1..(i - 1) : items[j][2] < items[i][2]
         IN  <<items[best]>> \o
             SortByWeightDesc([j \in 1..(Len(items) - 1) |->
                                 IF j < best THEN items[j] ELSE items[j + 1]])

\* 0.6 * betweenness + 0.4 * degree
KeystoneScore(b, d) == FAdd(FMul(Tenth(6), b), FMul(Tenth(4), d))

find_keystone_distortions(gg, distortions) ==
    LET query_graph == extract_user_pattern(gg, distortions)
        order == NodeOrder(distortions)
        betweenness == betweenness_centrality(order, EdgeOrder(gg, distortions))
        degree == degree_centrality(query_graph)
    IN  IF DOMAIN query_graph.nodes = {} THEN <<>>
        ELSE SortByScoreDesc([i \in DOMAIN order |->
                <<order[i], KeystoneScore(betweenness[order[i]], degree[order[i]])>>])

JaccardSmoothed(A, B) == FromRatio(Cardinality(A \cap B) + 1, Cardinality(A \cup B) + 1)

JaccardOverSum(A, B) == FromRatio(Cardinality(A \cap B), Cardinality(A) + Cardinality(B))

\* len(A & B) / len(A | B)
Jaccard(A, B) == FromRatio(Cardinality(A \cap B), Cardinality(A \cup B))

\* numpy's sum of a run of doubles (pairwise_sum): fewer than 8 are added one
\* after the other; up to 128 go to eight running sums, combined in pairs,
\* the rest added one after the other; a longer run is split in two.
RECURSIVE pairwise_sum(_)
pairwise_sum(a) ==
    LET n == Len(a)
    IN  IF n < 8 THEN FSumFrom(Zero(FALSE), a)
        ELSE IF n <= 128
        THEN LET blocks == n \div 8
                 r == [j \in 1..8 |->
                          FSumFrom(a[j], [b \in 1..(blocks - 1) |-> a[8 * b + j]])]
                 res == FAdd(FAdd(FAdd(r[1], r[2]), FAdd(r[3], r[4])),
                             FAdd(FAdd(r[5], r[6]), FAdd(r[7], r[8])))
             IN  FSumFrom(res, SubSeq(a, 8 * blocks + 1, n))
        ELSE LET half == n \div 2
                 n2 == half - (half % 8)
             IN  FAdd(pairwise_sum(SubSeq(a, 1, n2)), pairwise_sum(SubSeq(a, n2 + 1, n)))

\* np.mean of a non-empty list: the sum, reduced onto 0.0, over the count.
mean(a) == FDivInt(FAdd(Zero(FALSE), pairwise_sum(a)), Len(a))

\* [1 - abs(deg1.get(n, 0) - deg2.get(n, 0)) for n in nodes]
RECURSIVE CentralityTerms(_, _, _)
CentralityTerms(deg1, deg2, nodes) ==
    IF nodes = <<>> THEN <<>>
    ELSE <<FSub(FromInt(1), FAbs(FSub(deg1[Head(nodes)], deg2[Head(nodes)])))>>
            \o CentralityTerms(deg1, deg2, Tail(nodes))

\* The orders in which `for n in shared` can visit k items, as permutations
\* of their positions in one listing.  The iteration order of a set of
\* strings is not fixed by the language: it changes with the hash seed of the
\* process and with the way the set was built.  Of two orders that differ
\* only in their first two items one is kept: a float sum does not depend on
\* the order of its first two terms.
Orderings(k) ==
    {p \in [1..k -> 1..k] :
        /\ \A i, j \in 1..k : i # j => p[i] # p[j]
        /\ k >= 2 => p[1] < p[2]}

\* The values np.mean([... for n in shared]) can take.
CentralitySims(deg1, deg2, shared) ==
    LET terms == CentralityTerms(deg1, deg2, SetToSeq(shared))
    IN  {mean([i \in DOMAIN terms |-> terms[p[i]]]) : p \in Orderings(Len(terms))}

\* 0.4 * node_jaccard + 0.3 * edge_jaccard + 0.3 * centrality_sim
Weighted(node_jaccard, edge_jaccard, centrality_sim) ==
    FAdd(FAdd(FMul(Tenth(4), node_jaccard), FMul(Tenth(3), edge_jaccard)),
         FMul(Tenth(3), centrality_sim))

\* The values one call can return: one for each value of centrality_sim.
_compute_graph_similarity(G1, G2) ==
    LET nodes1 == DOMAIN G1.nodes
        nodes2 == DOMAIN G2.nodes
        edges1 == DOMAIN G1.edges
        edges2 == DOMAIN G2.edges
        shared == nodes1 \cap nodes2
        node_jaccard == Jaccard(nodes1, nodes2)
        edge_jaccard == IF edges1 # {} /\ edges2 # {}
                        THEN Jaccard(edges1, edges2) ELSE Zero(FALSE)
        centrality_sims ==
            IF shared # {}
            THEN CentralitySims(degree_centrality(G1), degree_centrality(G2), shared)
            ELSE {Zero(FALSE)}
    IN  IF nodes1 = {} \/ nodes2 = {} THEN {Zero(FALSE)}
        ELSE {Weighted(node_jaccard, edge_jaccard, cs) : cs \in centrality_sims}

----------------------------------------------------------------------------
(* GeARRetrieval: similar patterns, cascade paths and the bundle.          *)

SliceToInclusive(s, k) == SubSeq(s, 1, Min(k + 1, Len(s)))

\* Python's s[:k]
SliceTo(s, k) ==
    IF k >= 0 THEN SubSeq(s, 1, Min(k, Len(s)))
    ELSE SubSeq(s, 1, IF Len(s) + k > 0 THEN Len(s) + k ELSE 0)

\* The contents the similarities list can have after the loop over the
\* users: (user_id, sim, graph.graph) for each, in the order of the dict.
RECURSIVE Similarities(_, _)
Similarities(query_graph, users) ==
    IF users = <<>> THEN {<<>>}
    ELSE {<<<<Head(users)[1], sim, Head(users)[2].graph>>>> \o rest :
            sim \in _compute_graph_similarity(query_graph, Head(users)[2]),
            rest \in Similarities(query_graph, Tail(users))}

FindSimilarUnsorted(engine, query_distortions, top_k) ==
    LET query_graph == extract_user_pattern(engine.global_graph, query_distortions)
    IN  {SliceTo(similarities, top_k) :
            similarities \in Similarities(query_graph, engine.personal_graphs)}

\* The lists one call can return.
find_similar_patterns(engine, query_distortions, top_k) ==
    LET query_graph == extract_user_pattern(engine.global_graph, query_distortions)
    IN  {SliceTo(SortByScoreDesc(similarities), top_k) :
            similarities \in Similarities(query_graph, engine.personal_graphs)}

\* networkx.all_simple_paths(G, source, target, cutoff): depth-first from the end
\* of path over the successors succ still to try; paths of at most cutoff edges.
RECURSIVE all_simple_paths(_, _, _, _, _)
all_simple_paths(order, path, succ, target, cutoff) ==
    IF succ = <<>> THEN <<>>
    ELSE LET child == Head(succ)
             found ==
                IF CountIn(path, child) > 0 THEN <<>>
                ELSE IF child = target
                THEN IF Len(path) <= cutoff THEN <<Append(path, child)>> ELSE <<>>
                ELSE IF Len(path) < cutoff
                THEN all_simple_paths(order, Append(path, child),
                                      Successors(order, child), target, cutoff)
                ELSE <<>>
         IN  found \o all_simple_paths(order, path, Tail(succ), target, cutoff)

PathWeightInHops(G, path) == Len(path) - 1

\* sum(query_graph[path[i]][path[i+1]].get('weight', 1) for i in range(len(path)-1))
PathWeight(G, path) ==
    SeqSum([i \in 1..(Len(path) - 1) |->
        IF "weight" \in DOMAIN G.edges[<<path[i], path[i + 1]>>]
        THEN G.edges[<<path[i], path[i + 1]>>].weight ELSE 1])

\* The cascades list before it is sorted: every source, every other target,
\* in node order, each pair's paths in the order they are found.
Cascades(gg, distortions, max_length) ==
    LET order == EdgeOrder(gg, distortions)
        nodes == NodeOrder(distortions)
    IN  Concat([s \in DOMAIN nodes |->
            Concat([t \in DOMAIN nodes |->
                IF nodes[s] = nodes[t] THEN <<>>
                ELSE all_simple_paths(order, <<nodes[s]>>, Successors(order, nodes[s]),
                                      nodes[t], max_length)])])

CascadeLimit == 10

find_cascade_paths(gg, distortions, max_length) ==
    LET query_graph == extract_user_pattern(gg, distortions)
        cascades == Cascades(gg, distortions, max_length)
        cascades_with_weights ==
            [i \in DOMAIN cascades |->
                <<cascades[i], PathWeight(query_graph, cascades[i])>>]
        sorted == SortByWeightDesc(cascades_with_weights)
    IN  [i \in DOMAIN SliceTo(sorted, CascadeLimit) |-> sorted[i][1]]

\* meta.get(key): the value, or None
MetaGet(meta, key) == IF key \in DOMAIN meta THEN meta[key] ELSE "None"

\* The values x[key] of the metadata bags that have the key, in order.
RECURSIVE Collect(_, _)
Collect(similar_users, key) ==
    IF similar_users = <<>> THEN <<>>
    ELSE IF key \in DOMAIN Head(similar_users)[3]
    THEN <<Head(similar_users)[3][key]>> \o Collect(Tail(similar_users), key)
    ELSE Collect(Tail(similar_users), key)

MostCommonLastSeen(types) ==
    IF types = <<>> THEN "None"
    ELSE types[CHOOSE i \in DOMAIN types :
                /\ \A j \in DOMAIN types : CountIn(types, types[j]) <= CountIn(types, types[i])
                /\ \A j \in (i + 1)..Len(types) :
                        CountIn(types, types[j]) < CountIn(types, types[i])]

\* max(journey_types.items(), key=count)[0]: the most frequent, the first seen
\* among equally frequent ones.
MostCommon(types) ==
    IF types = <<>> THEN "None"
    ELSE types[CHOOSE i \in DOMAIN types :
                /\ \A j \in DOMAIN types : CountIn(types, types[j]) <= CountIn(types, types[i])
                /\ \A j \in 1..(i - 1) : CountIn(types, types[j]) < CountIn(types, types[i])]

\* The int 0 stands where the source returns the int 0 for a missing number.
_analyze_outcomes(similar_users) ==
    LET improvements == Collect(similar_users, "improvement")
        journey_types == Collect(similar_users, "journey_type")
    IN  IF similar_users = <<>>
        THEN [success_rate |-> FromInt(0), avg_improvement |-> FromInt(0)]
        ELSE [num_similar_cases |-> Len(similar_users),
              avg_improvement |-> IF improvements # <<>>
                                  THEN NpRound3(mean(improvements)) ELSE FromInt(0),
              most_common_trajectory |-> MostCommon(journey_types),
              success_rate |-> IF improvements # <<>>
                               THEN FromRatio(
                                        Cardinality({i \in DOMAIN improvements :
                                            FLess(FromInt(0), improvements[i])}),
                                        Len(improvements))
                               ELSE FromInt(0)]

\* ' -> '.join(cascade): the names with the arrow between them.
RECURSIVE Join(_)
Join(cascade) ==
    IF Len(cascade) <= 1 THEN cascade
    ELSE <<Head(cascade), " -> ">> \o Join(Tail(cascade))

KeystoneLimit == 3
CascadePatternLimit == 5
DefaultMaxLength == 4

\* The dict retrieve_interventions builds from what the three searches
\* returned.  sim is a numpy float64 and round(sim, 3) numpy's rounding; the
\* keystone score is a Python float and round(score, 3) Python's.
Bundle(distortions, similar, keystones, cascades) ==
    LET outcomes == _analyze_outcomes(similar)
    IN  [query_distortions |-> distortions,
         similar_users |->
            [i \in DOMAIN similar |->
                [user_id |-> similar[i][1],
                 similarity |-> NpRound3(similar[i][2]),
                 journey_type |-> MetaGet(similar[i][3], "journey_type"),
                 improvement |-> MetaGet(similar[i][3], "improvement")]],
         keystone_distortions |->
            [i \in DOMAIN SliceTo(keystones, KeystoneLimit) |->
                [distortion |-> keystones[i][1],
                 centrality |-> PyRound3(keystones[i][2])]],
         cascade_patterns |->
            [i \in DOMAIN SliceTo(cascades, CascadePatternLimit) |-> Join(cascades[i])],
         outcomes |-> outcomes]

\* The dicts one call can return.
retrieve_interventions(engine, distortions, top_k) ==
    LET keystones == find_keystone_distortions(engine.global_graph, distortions)
        cascades == find_cascade_paths(engine.global_graph, distortions, DefaultMaxLength)
    IN  {Bundle(distortions, similar, keystones, cascades) :
            similar \in find_similar_patterns(engine, distortions, top_k)}

----------------------------------------------------------------------------
(* The single-user pipeline: one journey is written entry by entry, given  *)
(* its interventions or not, then built, exported and loaded.              *)

TheJourney == journeys[1]

LastEntry == TheJourney.entries[Len(TheJourney.entries)]

WithEntries(entries) ==
    <<MakeJourney(TheJourney.user_profile.user_id, TheJourney.journey_type, entries)>>

ReplaceLast(entries, e) == [entries EXCEPT ![Len(entries)] = e]

Init ==
    /\ compensated_sum \in BOOLEAN
    /\ journeys \in {<<MakeJourney(UserId(1), jt, <<>>)>> : jt \in JourneyTypes}
    /\ personal_graphs = <<>>
    /\ global_graph = NoGraph
    /\ export_data = NoExport
    /\ gear = NoGear
    /\ result = NoResult
    /\ pc = "input"

\* generate_user_journey appends a complete_entry.
AddEntry(sev) ==
    /\ pc = "input"
    /\ Len(TheJourney.entries) < MaxEntries
    /\ journeys' = WithEntries(Append(TheJourney.entries, NewEntry(sev)))
    /\ UNCHANGED <<personal_graphs, global_graph, export_data, gear, result, pc,
                 compensated_sum>>

\* One more detection in the entry's extracted distortion list.
AddDetection(d, c) ==
    /\ pc = "input"
    /\ TheJourney.entries # <<>>
    /\ Len(Concat([k \in DOMAIN TheJourney.entries |-> TheJourney.entries[k].distortions]))
            < MaxDetections
    /\ journeys' = WithEntries(ReplaceLast(TheJourney.entries,
            [LastEntry EXCEPT !.distortions =
                Append(@, [type |-> d, confidence |-> Tenth(c)])]))
    /\ UNCHANGED <<personal_graphs, global_graph, export_data, gear, result, pc,
                 compensated_sum>>

\* add_interventions_to_data on the generator's file.  With a journey that
\* has no entry the call raises before the output file is written.
AddInterventionsToData ==
    /\ pc = "input"
    /\ IF AddInterventionsRaises(journeys)
       THEN /\ result' = [op |-> "add_interventions_to_data", value |-> ZeroDivisionError]
            /\ pc' = "failed"
            /\ UNCHANGED journeys
       ELSE /\ journeys' \in add_interventions_to_data(journeys)
            /\ pc' = "enhanced"
            /\ UNCHANGED result
    /\ UNCHANGED <<personal_graphs, global_graph, export_data, gear,
                 compensated_sum>>

\* process_all_journeys on the journeys of either file.
ProcessAllJourneys ==
    /\ pc \in {"input", "enhanced", "global_built"}
    /\ personal_graphs' = StorePersonalGraphs(personal_graphs, journeys)
    /\ global_graph' = build_global_intervention_graph(journeys)
    /\ pc' = "built"
    /\ UNCHANGED <<journeys, export_data, gear, result,
                 compensated_sum>>

\* build_global_intervention_graph called on its own with the journeys:
\* self.global_graph is replaced, self.personal_graphs stays as it is.  After
\* process_all_journeys on the same journeys the call builds the same graph
\* again.
BuildGlobalInterventionGraph ==
    /\ pc \in {"input", "enhanced", "built", "global_built"}
    /\ global_graph' = build_global_intervention_graph(journeys)
    /\ pc' = IF pc = "built" THEN "built" ELSE "global_built"
    /\ UNCHANGED <<journeys, personal_graphs, export_data, gear, result,
                 compensated_sum>>

ExportForGear ==
    /\ pc \in {"built", "global_built"}
    /\ export_data' = export_for_gear(personal_graphs, global_graph)
    /\ pc' = "exported"
    /\ UNCHANGED <<journeys, personal_graphs, global_graph, gear, result,
                 compensated_sum>>

LoadGear ==
    /\ pc = "exported"
    /\ gear' = GeARRetrieval(export_data)
    /\ pc' = "loaded"
    /\ UNCHANGED <<journeys, personal_graphs, global_graph, export_data, result,
                 compensated_sum>>

Next ==
    \/ \E sev \in Severities : AddEntry(sev)
    \/ \E d \in Distortions, c \in Confidences : AddDetection(d, c)
    \/ AddInterventionsToData
    \/ ProcessAllJourneys
    \/ BuildGlobalInterventionGraph
    \/ ExportForGear
    \/ LoadGear

Spec == Init /\ [][Next]_vars

----------------------------------------------------------------------------
(* The cohort: whole journeys of the file add_interventions_to_data wrote   *)
(* are added to the batch, in any order, then the batch is built.  Each    *)
(* journey is one of three kinds; up to MaxTreated of them are of the two  *)
(* kinds that used an intervention.                                        *)

Detection(d) == [type |-> d, confidence |-> Tenth(CHOOSE c \in Confidences : TRUE)]

\* An entry listing these detections, measured at sev tenths.
EntryOf(types, ivs, sev) ==
    [distortions |-> [i \in DOMAIN types |-> Detection(types[i])],
     measured_severity |-> Tenth(sev),
     interventions_used |-> ivs]

\* The journey of that file whose entries list these detections and
\* severities and have drawn these interventions.
FileJourney(uid, jt, entries) ==
    AssignedJourney(
        MakeJourney(uid, jt, [k \in DOMAIN entries |->
                                [entries[k] EXCEPT !.interventions_used = <<>>]]),
        [k \in DOMAIN entries |-> entries[k].interventions_used])

CohortKinds == {"pair", "twice", "plain"}

CohortJourney(uid, kind) ==
    IF kind = "pair"
    THEN FileJourney(uid, "rapid_improvement",
            <<EntryOf(<<"fortune_telling", "catastrophizing">>, <<"exposure_therapy">>, 2)>>)
    ELSE IF kind = "twice"
    THEN FileJourney(uid, "rapid_improvement",
            <<EntryOf(<<"fortune_telling">>, <<"exposure_therapy">>, 6),
              EntryOf(<<"catastrophizing">>, <<"exposure_therapy">>, 4)>>)
    ELSE FileJourney(uid, "worsening", <<EntryOf(<<"catastrophizing">>, <<>>, 6)>>)

InitCohort ==
    /\ compensated_sum \in BOOLEAN
    /\ journeys = <<>>
    /\ personal_graphs = <<>>
    /\ global_graph = NoGraph
    /\ export_data = NoExport
    /\ gear = NoGear
    /\ result = NoResult
    /\ pc = "input"

AddJourney(kind) ==
    /\ pc = "input"
    /\ Len(journeys) < MaxCohort
    /\ kind # "plain" =>
            Cardinality({k \in DOMAIN journeys : SeenInterventions(journeys[k].entries) # {}})
                < MaxTreated
    /\ journeys' = Append(journeys, CohortJourney(UserId(Len(journeys) + 1), kind))
    /\ UNCHANGED <<personal_graphs, global_graph, export_data, gear, result, pc,
                 compensated_sum>>

NextCohort ==
    \/ \E kind \in CohortKinds : AddJourney(kind)
    \/ ProcessAllJourneys
    \/ BuildGlobalInterventionGraph

SpecCohort == InitCohort /\ [][NextCohort]_vars

----------------------------------------------------------------------------
(* The retrieval engine on its own: constructed from an export file, then  *)
(* queried.  The file's global graph links the three distortions by any    *)
(* subset of four weighted edges; its first user has any graph over two    *)
(* distortions (self-loops and edges in both directions included), its     *)
(* two other users have graphs over the same four distortions, one without *)
(* edges and one with a single edge.                                       *)

EngineDistortions == {"catastrophizing", "fortune_telling", "mind_reading"}

EngineGlobalEdges ==
    {<<"catastrophizing", "fortune_telling">>, <<"fortune_telling", "mind_reading">>,
     <<"fortune_telling", "catastrophizing">>, <<"catastrophizing", "mind_reading">>}

EngineWeight(e) ==
    IF e = <<"catastrophizing", "fortune_telling">> THEN 5
    ELSE IF e = <<"fortune_telling", "mind_reading">> THEN 3
    ELSE IF e = <<"fortune_telling", "catastrophizing">> THEN 5
    ELSE 2

EngineGlobalGraphs ==
    {[nodes |-> [n \in EngineDistortions |-> [type |-> "distortion"]],
      edges |-> [e \in E |-> [weight |-> EngineWeight(e)]],
      graph |-> <<>>] : E \in SUBSET EngineGlobalEdges}

\* The metadata of a journey that ended at severity 0.2.
EngineMetadata(uid) ==
    [user_id |-> uid, journey_type |-> "rapid_improvement",
     initial_severity |-> Tenth(InitialSeverity), final_severity |-> Tenth(2),
     improvement |-> FSub(Tenth(InitialSeverity), Tenth(2)),
     interventions_assigned |-> JOURNEY_TO_INTERVENTIONS("rapid_improvement")]

EnginePersonalGraph(uid, S, E) ==
    [nodes |-> [n \in S |-> [type |-> "distortion"]],
     edges |-> [e \in E |-> [weight |-> 2]],
     graph |-> EngineMetadata(uid)]

EnginePersonalGraphs ==
    UNION {{EnginePersonalGraph(UserId(1), S, E) : E \in SUBSET (S \X S)}
           : S \in SUBSET Distortions}

WideDistortions == {"catastrophizing", "fortune_telling", "labeling", "mind_reading"}

\* The two other users of the file.
EngineWideUsers ==
    <<<<UserId(2), EnginePersonalGraph(UserId(2), WideDistortions, {})>>,
      <<UserId(3), EnginePersonalGraph(UserId(3), WideDistortions,
                                       {<<"catastrophizing", "labeling">>})>>>>

Queries == UNION {[1..k -> EngineDistortions] : k \in 0..MaxQuery}

\* The graphs the engine compares: its users' graphs and the query graphs.
KnownGraphs ==
    {gear.personal_graphs[i][2] : i \in DOMAIN gear.personal_graphs}
        \cup {extract_user_pattern(gear.global_graph, q) : q \in Queries}

InitEngine ==
    /\ compensated_sum \in BOOLEAN
    /\ journeys = <<>>
    /\ personal_graphs = <<>>
    /\ global_graph = NoGraph
    /\ export_data = NoExport
    /\ gear \in {[loaded |-> TRUE, global_graph |-> gg,
                   personal_graphs |-> <<<<UserId(1), pg>>>> \o EngineWideUsers]
                  : gg \in EngineGlobalGraphs, pg \in EnginePersonalGraphs}
    /\ result = NoResult
    /\ pc = "loaded"

\* None of the public calls assigns to the engine's graphs: extract_user_pattern
\* fills a fresh DiGraph and only reads self.global_graph (has_edge,
\* subscripting); the others read self.personal_graphs.
EngineAfterQueryAddingNodes(engine, distortions) ==
    [engine EXCEPT !.global_graph.nodes =
        [n \in DOMAIN @ \cup {distortions[i] : i \in DOMAIN distortions} |->
            IF n \in DOMAIN @ THEN @[n] ELSE <<>>]]

\* The engine after a call made with the given distortions.
EngineAfterQuery(engine, distortions) == engine

FindKeystoneDistortions(q) ==
    /\ pc = "loaded"
    /\ result' = [op |-> "find_keystone_distortions", distortions |-> q,
                  value |-> IF ExtractRaises(gear.global_graph, q) THEN KeyError
                            ELSE find_keystone_distortions(gear.global_graph, q)]
    /\ gear' = EngineAfterQuery(gear, q)
    /\ pc' = "returned"
    /\ UNCHANGED <<journeys, personal_graphs, global_graph, export_data,
                 compensated_sum>>

ComputeGraphSimilarity(G1, G2) ==
    /\ pc = "loaded"
    /\ \E sim \in _compute_graph_similarity(G1, G2) :
            result' = [op |-> "_compute_graph_similarity", G1 |-> G1, G2 |-> G2,
                       value |-> sim]
    /\ pc' = "returned"
    /\ UNCHANGED <<journeys, personal_graphs, global_graph, export_data, gear,
                 compensated_sum>>

\* The caller has taken the returned value; the engine is ready for the next call.
Return ==
    /\ pc = "returned"
    /\ result' = NoResult
    /\ pc' = "loaded"
    /\ UNCHANGED <<journeys, personal_graphs, global_graph, export_data, gear,
                 compensated_sum>>

NextEngine ==
    \/ \E q \in Queries : FindKeystoneDistortions(q)
    \/ \E G1 \in KnownGraphs, G2 \in KnownGraphs : ComputeGraphSimilarity(G1, G2)
    \/ Return

SpecEngine == InitEngine /\ [][NextEngine]_vars

----------------------------------------------------------------------------
(* The other public calls of a constructed engine. *)

ExtractUserPattern(q) ==
    /\ pc = "loaded"
    /\ result' = [op |-> "extract_user_pattern", distortions |-> q,
                  value |-> IF ExtractRaises(gear.global_graph, q) THEN KeyError
                            ELSE extract_user_pattern(gear.global_graph, q)]
    /\ gear' = EngineAfterQuery(gear, q)
    /\ pc' = "returned"
    /\ UNCHANGED <<journeys, personal_graphs, global_graph, export_data,
                 compensated_sum>>

FindCascadePaths(q, max_length) ==
    /\ pc = "loaded"
    /\ result' = [op |-> "find_cascade_paths", distortions |-> q,
                  max_length |-> max_length,
                  value |-> IF ExtractRaises(gear.global_graph, q) THEN KeyError
                            ELSE find_cascade_paths(gear.global_graph, q, max_length)]
    /\ gear' = EngineAfterQuery(gear, q)
    /\ pc' = "returned"
    /\ UNCHANGED <<journeys, personal_graphs, global_graph, export_data,
                 compensated_sum>>

FindSimilarPatterns(q, top_k) ==
    /\ pc = "loaded"
    /\ \E value \in IF ExtractRaises(gear.global_graph, q) THEN {KeyError}
                     ELSE find_similar_patterns(gear, q, top_k) :
            result' = [op |-> "find_similar_patterns", distortions |-> q,
                       top_k |-> top_k, value |-> value]
    /\ gear' = EngineAfterQuery(gear, q)
    /\ pc' = "returned"
    /\ UNCHANGED <<journeys, personal_graphs, global_graph, export_data,
                 compensated_sum>>

RetrieveInterventions(q, top_k) ==
    /\ pc = "loaded"
    /\ \E value \in IF ExtractRaises(gear.global_graph, q) THEN {KeyError}
                     ELSE retrieve_interventions(gear, q, top_k) :
            result' = [op |-> "retrieve_interventions", distortions |-> q,
                       top_k |-> top_k, value |-> value]
    /\ gear' = EngineAfterQuery(gear, q)
    /\ pc' = "returned"
    /\ UNCHANGED <<journeys, personal_graphs, global_graph, export_data,
                 compensated_sum>>

----------------------------------------------------------------------------
(* Cascades: an engine whose file links the three distortions by the two   *)
(* edges catastrophizing -> fortune_telling (5), fortune_telling ->        *)
(* mind_reading (3) and any subset of five more, queried with patterns of  *)
(* up to MaxPattern distortions.                                           *)

PatternFixedEdges ==
    {<<"catastrophizing", "fortune_telling">>, <<"fortune_telling", "mind_reading">>}

PatternOptionalEdges ==
    {<<"catastrophizing", "mind_reading">>, <<"fortune_telling", "catastrophizing">>,
     <<"mind_reading", "catastrophizing">>, <<"mind_reading", "fortune_telling">>,
     <<"catastrophizing", "catastrophizing">>}

PatternWeight(e) ==
    IF e = <<"catastrophizing", "fortune_telling">> THEN 5
    ELSE IF e = <<"fortune_telling", "mind_reading">> THEN 3
    ELSE IF e = <<"catastrophizing", "mind_reading">> THEN 8
    ELSE IF e = <<"fortune_telling", "catastrophizing">> THEN 5
    ELSE IF e = <<"mind_reading", "catastrophizing">> THEN 3
    ELSE 1

PatternGlobalGraphs ==
    {[nodes |-> [n \in EngineDistortions |-> [type |-> "distortion"]],
      edges |-> [e \in PatternFixedEdges \cup E |-> [weight |-> PatternWeight(e)]],
      graph |-> <<>>] : E \in SUBSET PatternOptionalEdges}

PatternQueries == UNION {[1..k -> EngineDistortions] : k \in 0..MaxPattern}

MaxLengths == {0, 2, DefaultMaxLength}

InitPatterns ==
    /\ compensated_sum \in BOOLEAN
    /\ journeys = <<>>
    /\ personal_graphs = <<>>
    /\ global_graph = NoGraph
    /\ export_data = NoExport
    /\ gear \in {[loaded |-> TRUE, global_graph |-> gg, personal_graphs |-> <<>>]
                  : gg \in PatternGlobalGraphs}
    /\ result = NoResult
    /\ pc = "loaded"

NextPatterns ==
    \/ \E q \in PatternQueries : ExtractUserPattern(q)
    \/ \E q \in PatternQueries, max_length \in MaxLengths : FindCascadePaths(q, max_length)
    \/ Return

SpecPatterns == InitPatterns /\ [][NextPatterns]_vars

----------------------------------------------------------------------------
(* The bundle: an engine constructed from the export of a built cohort of  *)
(* up to MaxUsers journeys, then queried through its public calls.         *)

\* Two more kinds of user for the bundle.  "chain": three entries, the first
\* listing four distortions, one intervention used in the first two, another in
\* the third.  "swing": four entries measured at 0.5, 0.3, 0.1 and 0.2, one
\* intervention used in each of them.
BundleKinds == CohortKinds \cup {"chain", "swing"}

BundleJourney(uid, kind) ==
    IF kind = "chain"
    THEN FileJourney(uid, "rapid_improvement",
            <<EntryOf(<<"catastrophizing", "fortune_telling", "labeling", "mind_reading">>,
                      <<"exposure_therapy">>, 6),
              EntryOf(<<"catastrophizing">>, <<"exposure_therapy">>, 4),
              EntryOf(<<"fortune_telling">>, <<"behavioral_experiments">>, 1)>>)
    ELSE IF kind = "swing"
    THEN FileJourney(uid, "rapid_improvement",
            <<EntryOf(<<"catastrophizing">>, <<"exposure_therapy">>, 5),
              EntryOf(<<"catastrophizing">>, <<"exposure_therapy">>, 3),
              EntryOf(<<"fortune_telling">>, <<"exposure_therapy">>, 1),
              EntryOf(<<"fortune_telling">>, <<"exposure_therapy">>, 2)>>)
    ELSE CohortJourney(uid, kind)

Cohorts == UNION {[1..n -> BundleKinds] : n \in 0..MaxUsers}

CohortOf(kinds) == [k \in DOMAIN kinds |-> BundleJourney(UserId(k), kinds[k])]

\* The queries put to the bundle: the short ones, one of four distortions, and
\* one that repeats a distortion out of order and ends on a name no journey uses.
LongQueries ==
    {<<"catastrophizing", "fortune_telling", "labeling", "mind_reading">>,
     <<"fortune_telling", "catastrophizing", "fortune_telling", "personalization">>}

BundleQueries == Queries \cup LongQueries

TopKs == 0..MaxTopK

InitBundle ==
    /\ compensated_sum \in BOOLEAN
    /\ \E kinds \in Cohorts :
            /\ journeys = CohortOf(kinds)
            /\ personal_graphs = StorePersonalGraphs(<<>>, journeys)
            /\ global_graph = build_global_intervention_graph(journeys)
            /\ export_data = export_for_gear(personal_graphs, global_graph)
            /\ gear = GeARRetrieval(export_data)
    /\ result = NoResult
    /\ pc = "loaded"

NextBundle ==
    \/ \E q \in BundleQueries : ExtractUserPattern(q)
    \/ \E q \in BundleQueries, top_k \in TopKs : FindSimilarPatterns(q, top_k)
    \/ \E q \in BundleQueries : FindKeystoneDistortions(q)
    \/ \E q \in BundleQueries : FindCascadePaths(q, DefaultMaxLength)
    \/ \E q \in BundleQueries, top_k \in TopKs : RetrieveInterventions(q, top_k)
    \/ Return

SpecBundle == InitBundle /\ [][NextBundle]_vars

----------------------------------------------------------------------------
(* One builder used for several batches: the caller puts up to MaxBatch    *)
(* journeys in a list, their user ids drawn from MaxIds values (the        *)
(* generator draws them at random, so they can repeat), calls              *)
(* process_all_journeys with it (or build_global_intervention_graph alone), *)
(* exports or not, and starts the next list.                               *)

BatchKinds == {"pair", "plain"}

\* One more journey in the list the next call will be given.
SubmitJourney(id, kind) ==
    /\ pc = "input"
    /\ Len(journeys) < MaxBatch
    /\ journeys' = Append(journeys, CohortJourney(UserId(id), kind))
    /\ UNCHANGED <<personal_graphs, global_graph, export_data, gear, result, pc,
                 compensated_sum>>

\* The caller starts the list for another process_all_journeys call on the
\* same builder: self.personal_graphs and self.global_graph stay as they are.
NewBatch ==
    /\ pc \in {"built", "global_built", "exported"}
    /\ journeys' = <<>>
    /\ pc' = "input"
    /\ UNCHANGED <<personal_graphs, global_graph, export_data, gear, result,
                 compensated_sum>>

NextBatches ==
    \/ \E id \in 1..MaxIds, kind \in BatchKinds : SubmitJourney(id, kind)
    \/ ProcessAllJourneys
    \/ BuildGlobalInterventionGraph
    \/ ExportForGear
    \/ NewBatch

SpecBatches == InitCohort /\ [][NextBatches]_vars

----------------------------------------------------------------------------
(* What the properties speak of. *)

\* Times d1 and d2 are listed together in an entry, whichever comes first.
UnorderedCount(entries, d1, d2) ==
    SeqSum([k \in DOMAIN entries |->
        Cardinality({p \in (DOMAIN entries[k].distortions) \X (DOMAIN entries[k].distortions) :
            /\ p[1] < p[2]
            /\ {TypesOf(entries[k])[p[1]], TypesOf(entries[k])[p[2]]} = {d1, d2}})])

\* Journeys of the batch in which d1 and d2 are listed together at least once.
JourneysWithPair(js, d1, d2) ==
    Cardinality({k \in DOMAIN js : UnorderedCount(js[k].entries, d1, d2) >= 1})

CoOccursEdge(G, a, b) ==
    /\ <<a, b>> \in DOMAIN G.edges
    /\ G.edges[<<a, b>>].edge_type = "co_occurs"

CoOccursLinked(G, a, b) == CoOccursEdge(G, a, b) \/ CoOccursEdge(G, b, a)

DistinctPairs == {p \in Distortions \X Distortions : p[1] # p[2]}

BuiltGraphs == {personal_graphs[i][2] : i \in DOMAIN personal_graphs} \cup {global_graph}

\* The global graph is the one built from the journeys.
GlobalBuilt == pc \in {"built", "global_built"}

One == FromInt(1)

\* Mean improvement over the journeys with improvement > 0 that used iv, each
\* once: their improvements added in journey order, over their number.
PerJourneyMean(js, iv) ==
    LET users == SelectSeq(js, LAMBDA j : Improved(j) /\ Uses(j.entries, iv) > 0)
    IN  IF users = <<>> THEN FromInt(0)
        ELSE FDivInt(FSumFrom(FromInt(0), [k \in DOMAIN users |-> users[k].improvement]),
                     Len(users))

----------------------------------------------------------------------------
(* C1: in a cohort of 10 journeys, a distortion pair that co-occurs in     *)
(* exactly 1 journey gets no co_occurs edge in the global graph.           *)
C1_NoEdgeForOneOfTen ==
    (GlobalBuilt /\ Len(journeys) = 10) =>
        \A p \in DistinctPairs :
            JourneysWithPair(journeys, p[1], p[2]) = 1 => ~CoOccursLinked(global_graph, p[1], p[2])

(* C1 as amended: a pair that co-occurs exactly once in the whole cohort   *)
(* gets its co_occurs edge exactly when the cohort has at most 10 journeys *)
(* (1 >= 0.1 x 10 meets the threshold); the edge then has weight 1.        *)
C1_OneCoOccurrenceThreshold ==
    GlobalBuilt =>
        \A p \in DistinctPairs :
            UnorderedCount(AllEntries(journeys), p[1], p[2]) = 1 =>
                /\ CoOccursLinked(global_graph, p[1], p[2]) <=> Len(journeys) <= 10
                /\ \A e \in {p, <<p[2], p[1]>>} :
                        CoOccursEdge(global_graph, e[1], e[2]) => global_graph.edges[e].weight = 1

C1_Witness ==
    /\ pc = "global_built"
    /\ Len(journeys) = 10
    /\ \E p \in DistinctPairs :
            /\ JourneysWithPair(journeys, p[1], p[2]) = 1
            /\ UnorderedCount(AllEntries(journeys), p[1], p[2]) = 1
            /\ CoOccursLinked(global_graph, p[1], p[2])

(* C2: the global graph has a co_occurs edge for an unordered pair exactly *)
(* when the pair's count is at least 0.1 x the number of journeys, that    *)
(* is, when ten times the count is at least the number of journeys; the    *)
(* edge is stored once, from the pair's smaller id to the larger, with the *)
(* count as weight.                                                        *)
C2_GlobalCoOccursThreshold ==
    GlobalBuilt =>
        \A p \in Distortions \X Distortions :
            LET count == UnorderedCount(AllEntries(journeys), p[1], p[2])
            IN  /\ CoOccursLinked(global_graph, p[1], p[2])
                    <=> (count >= 1 /\ 10 * count >= Len(journeys))
                /\ CoOccursEdge(global_graph, p[1], p[2]) =>
                        /\ global_graph.edges[p].weight = count
                        /\ Rank(p[1]) <= Rank(p[2])

C2_Witness ==
    /\ pc = "built"
    /\ Len(journeys) = 10
    /\ \E p \in DistinctPairs :
            /\ JourneysWithPair(journeys, p[1], p[2]) = 2
            /\ CoOccursEdge(global_graph, p[1], p[2])
            /\ global_graph.edges[p].weight = 2

(* C3: for any non-empty graph A, with or without edges,                    *)
(* _compute_graph_similarity(A, A) is 1.0.                                 *)
C3_SelfSimilarityIsOne ==
    (result.op = "_compute_graph_similarity" /\ result.G1 = result.G2
        /\ DOMAIN result.G1.nodes # {}) => result.value = One

(* C3 as amended: for a graph A with at least one edge the similarity of A *)
(* with itself is 1.0; for a non-empty graph without edges it is 0.7, the  *)
(* edge term being 0 when either graph has no edges.                       *)
C3_SelfSimilarity ==
    (result.op = "_compute_graph_similarity" /\ result.G1 = result.G2
        /\ DOMAIN result.G1.nodes # {}) =>
            result.value = IF DOMAIN result.G1.edges # {} THEN One ELSE Tenth(7)

C3_Witness ==
    /\ result.op = "_compute_graph_similarity"
    /\ result.G1 = result.G2
    /\ Cardinality(DOMAIN result.G1.nodes) = 2
    /\ DOMAIN result.G1.edges # {}
    /\ result.value = One

(* C4: find_keystone_distortions([x]) returns exactly [(x, 0)].            *)
C4_SingleKeystoneScoresZero ==
    (result.op = "find_keystone_distortions" /\ Len(result.distortions) = 1) =>
        result.value = <<<<result.distortions[1], FromInt(0)>>>>

(* C5: a personal graph has a co_occurs edge between two distinct          *)
(* distortions exactly when they are listed together, in either order, in  *)
(* at least 2 entry-level co-occurrences; its weight is that count.        *)
C5_PersonalUnorderedThreshold ==
    pc = "built" =>
        \A i \in DOMAIN personal_graphs : \A p \in DistinctPairs :
            LET G == personal_graphs[i][2]
                count == UnorderedCount(journeys[i].entries, p[1], p[2])
            IN  /\ CoOccursLinked(G, p[1], p[2]) <=> count >= 2
                /\ CoOccursEdge(G, p[1], p[2]) => G.edges[p].weight = count

(* C6: no built graph, personal or global, holds co_occurs edges in both   *)
(* directions between two distortions.                                     *)
C6_OneEdgePerUnorderedPair ==
    pc = "built" =>
        \A G \in BuiltGraphs : \A p \in DistinctPairs :
            ~(CoOccursEdge(G, p[1], p[2]) /\ CoOccursEdge(G, p[2], p[1]))

(* C7: no built graph, personal or global, holds a co_occurs self-loop.    *)
C7_NoSelfLoop ==
    pc = "built" =>
        \A G \in BuiltGraphs : \A d \in Distortions : ~CoOccursEdge(G, d, d)

(* C8: an intervention's avg_improvement in the global graph is the mean   *)
(* improvement of the journeys with improvement > 0 that used it, each     *)
(* journey counted once, and 0 when there is none.                         *)
C8_PerJourneyAverage ==
    GlobalBuilt =>
        \A iv \in Interventions :
            iv \in DOMAIN global_graph.nodes =>
                global_graph.nodes[iv].avg_improvement = PerJourneyMean(journeys, iv)

----------------------------------------------------------------------------
(* Export and load. *)

\* The attributes an exported edge dict carries besides its end points.
ExportedEdgeBag(edge) == [k \in DOMAIN edge \ {"source", "target"} |-> edge[k]]

ExportedNodeBag(node) == [k \in DOMAIN node \ {"id"} |-> node[k]]

LoadedAs(exported, loaded) ==
    /\ \A node \in exported.nodes :
            /\ node.id \in DOMAIN loaded.nodes
            /\ loaded.nodes[node.id] = ExportedNodeBag(node)
    /\ \A edge \in exported.edges :
            /\ <<edge.source, edge.target>> \in DOMAIN loaded.edges
            /\ loaded.edges[<<edge.source, edge.target>>] = ExportedEdgeBag(edge)

(* C9: loading an export restores every edge attribute, every node         *)
(* attribute and every personal graph's metadata as exported.              *)
C9_LoadRestoresAllAttributes ==
    pc = "loaded" =>
        /\ LoadedAs(export_data.global_graph, gear.global_graph)
        /\ \A i \in DOMAIN export_data.personal_graphs :
                /\ LoadedAs(export_data.personal_graphs[i][2], gear.personal_graphs[i][2])
                /\ gear.personal_graphs[i][2].graph = export_data.personal_graphs[i][2].metadata

\* The builder's attribute bag with its kind tag under the key the export uses.
TagAsType(bag) ==
    [k \in (DOMAIN bag \ {"node_type"}) \cup {"type"} |->
        IF k = "type" THEN bag.node_type ELSE bag[k]]

SameShape(built, loaded) ==
    /\ DOMAIN loaded.nodes = DOMAIN built.nodes
    /\ DOMAIN loaded.edges = DOMAIN built.edges
    /\ \A e \in DOMAIN built.edges : loaded.edges[e].weight = built.edges[e].weight

RoundTrips(Same(_, _)) ==
    /\ Same(global_graph, gear.global_graph)
    /\ Len(gear.personal_graphs) = Len(personal_graphs)
    /\ \A i \in DOMAIN personal_graphs :
            /\ gear.personal_graphs[i][1] = personal_graphs[i][1]
            /\ Same(personal_graphs[i][2], gear.personal_graphs[i][2])

SameVerbatim(built, loaded) ==
    /\ SameShape(built, loaded)
    /\ \A n \in DOMAIN built.nodes : loaded.nodes[n] = built.nodes[n]

SameUpToTag(built, loaded) ==
    /\ SameShape(built, loaded)
    /\ \A n \in DOMAIN built.nodes : loaded.nodes[n] = TagAsType(built.nodes[n])

(* C10: export followed by load gives every built graph back with the same *)
(* node ids, the same node attributes, the same directed edges and the     *)
(* same edge weights.                                                      *)
C10_RoundTripVerbatim == pc = "loaded" => RoundTrips(SameVerbatim)

(* C10 as amended: the round trip keeps the node ids, the directed edges,  *)
(* the edge weights and every node attribute value, the node's kind being  *)
(* carried under the key type instead of the builder's key node_type.      *)
C10_RoundTrip == pc = "loaded" => RoundTrips(SameUpToTag)

C10_Witness ==
    /\ pc = "loaded"
    /\ \E i \in DOMAIN personal_graphs :
            \E e \in DOMAIN personal_graphs[i][2].edges :
                /\ personal_graphs[i][2].edges[e].weight >= 2
                /\ gear.personal_graphs[i][2].edges[e].weight >= 2
    /\ DOMAIN global_graph.edges # {}

----------------------------------------------------------------------------
(* C11: after construction the engine is read-only: whatever public calls  *)
(* have been made, with whatever inputs, its global graph and its personal *)
(* graphs are the ones its constructor built from the export.              *)
C11_EngineReadOnly == gear = GeARRetrieval(export_data)

C11_Witness ==
    /\ pc = "returned"
    /\ result.op = "retrieve_interventions"
    /\ \E i \in DOMAIN result.distortions : result.distortions[i] \notin DOMAIN gear.global_graph.nodes
    /\ Len(gear.personal_graphs) >= 2
    /\ result.value.similar_users # <<>>

\* The personal graph of the journey's entries a..b.
PartGraph(journey, a, b) ==
    build_personal_graph([journey EXCEPT !.entries = SubSeq(@, a, b)])

WeightOrZero(G, e) == IF e \in DOMAIN G.edges THEN G.edges[e].weight ELSE 0

AddressesEdge(G, e) == e \in DOMAIN G.edges /\ G.edges[e].edge_type = "addresses"

(* C12: for any split of a journey's entries into [1..n] and [n+1..m], the *)
(* edge-wise sum of the two parts' personal graphs (absent edge = 0) has   *)
(* exactly the edges and weights of the graph built from [1..m].           *)
C12_GraphsAddAcrossSplit ==
    pc = "built" =>
        \A i \in DOMAIN journeys : \A n \in 0..Len(journeys[i].entries) :
            LET m == Len(journeys[i].entries)
                first == PartGraph(journeys[i], 1, n)
                second == PartGraph(journeys[i], n + 1, m)
                whole == personal_graphs[i][2]
            IN  /\ DOMAIN whole.edges = DOMAIN first.edges \cup DOMAIN second.edges
                /\ \A e \in DOMAIN whole.edges :
                        whole.edges[e].weight = WeightOrZero(first, e) + WeightOrZero(second, e)

(* C12 as amended: across any split, the addresses edges are additive      *)
(* (edge-wise sum of the parts = the whole), and so are the co-occurrence  *)
(* counts behind the co_occurs edges: the whole graph has the co_occurs    *)
(* edge d1 -> d2 exactly when the two parts' counts of that listed pair    *)
(* sum to at least 2, with that sum as weight.  The parts' graphs show a   *)
(* count only once it reaches 2, so their co_occurs weights sum to at most *)
(* the whole's.                                                            *)
C12_CountsAddAcrossSplit ==
    pc = "built" =>
        \A i \in DOMAIN journeys : \A n \in 0..Len(journeys[i].entries) :
            LET m == Len(journeys[i].entries)
                first == PartGraph(journeys[i], 1, n)
                second == PartGraph(journeys[i], n + 1, m)
                whole == personal_graphs[i][2]
                edges == DOMAIN whole.edges \cup DOMAIN first.edges \cup DOMAIN second.edges
            IN  /\ \A e \in edges :
                        (AddressesEdge(whole, e) \/ AddressesEdge(first, e) \/ AddressesEdge(second, e))
                            => WeightOrZero(whole, e) = WeightOrZero(first, e) + WeightOrZero(second, e)
                /\ \A e \in Distortions \X Distortions :
                        LET count == PersonalPairCount(SubSeq(journeys[i].entries, 1, n), e[1], e[2])
                                     + PersonalPairCount(SubSeq(journeys[i].entries, n + 1, m), e[1], e[2])
                        IN  /\ CoOccursEdge(whole, e[1], e[2]) <=> count >= 2
                            /\ CoOccursEdge(whole, e[1], e[2]) => whole.edges[e].weight = count
                            /\ WeightOrZero(first, e) + WeightOrZero(second, e) <= WeightOrZero(whole, e)

C12_Witness ==
    /\ pc = "built"
    /\ Len(journeys[1].entries) = 2
    /\ \E e \in DOMAIN personal_graphs[1][2].edges :
            /\ AddressesEdge(personal_graphs[1][2], e)
            /\ AddressesEdge(PartGraph(journeys[1], 1, 1), e)
            /\ AddressesEdge(PartGraph(journeys[1], 2, 2), e)
    /\ \E e \in DOMAIN personal_graphs[1][2].edges :
            /\ CoOccursEdge(personal_graphs[1][2], e[1], e[2])
            /\ e \notin DOMAIN PartGraph(journeys[1], 1, 1).edges
            /\ e \notin DOMAIN PartGraph(journeys[1], 2, 2).edges

\* The distortion and intervention types the journey's entries refer to.
ReferencedTypes(journey) ==
    {t \in Distortions \cup Interventions :
        \E k \in DOMAIN journey.entries :
            \/ \E i \in DOMAIN journey.entries[k].distortions :
                    journey.entries[k].distortions[i].type = t
            \/ \E i \in DOMAIN journey.entries[k].interventions_used :
                    journey.entries[k].interventions_used[i] = t}

(* C13: the node ids of a journey's personal graph are exactly the         *)
(* distinct distortion types of its entries' detections together with the *)
(* distinct interventions of its entries' interventions_used.              *)
C13_NodesAreReferencedTypes ==
    pc = "built" =>
        \A i \in DOMAIN personal_graphs :
            DOMAIN personal_graphs[i][2].nodes = ReferencedTypes(journeys[i])

C13_Witness ==
    /\ pc = "built"
    /\ Len(journeys[1].entries) = 2
    /\ DOMAIN personal_graphs[1][2].nodes =
            Distortions \cup {"behavioral_experiments", "exposure_therapy"}
    /\ \E k \in DOMAIN journeys[1].entries :
            /\ Len(journeys[1].entries[k].distortions) >= 2
            /\ journeys[1].entries[k].distortions[1].type # journeys[1].entries[k].distortions[2].type

----------------------------------------------------------------------------
(* Query graphs and cascades. *)

\* u is listed at an earlier position of q than v.
ListedBefore(q, u, v) == \E i, j \in DOMAIN q : i < j /\ q[i] = u /\ q[j] = v

ScenarioQuery == <<"catastrophizing", "fortune_telling", "mind_reading">>

(* C14: extract_user_pattern returns a graph whose nodes are the distinct  *)
(* input distortions and which has the edge u -> v with weight w exactly   *)
(* when u is listed before v and the global graph has u -> v with weight   *)
(* w; in the scenario (global edges catastrophizing -> fortune_telling 5   *)
(* and fortune_telling -> mind_reading 3 only) it yields those two edges.  *)
C14_QueryGraphEdges ==
    result.op = "extract_user_pattern" =>
        LET q == result.distortions
            G == result.value
            gg == gear.global_graph
        IN  /\ DOMAIN G.nodes = {q[i] : i \in DOMAIN q}
            /\ DOMAIN G.edges \subseteq EngineDistortions \X EngineDistortions
            /\ \A u, v \in EngineDistortions :
                    /\ <<u, v>> \in DOMAIN G.edges
                            <=> (ListedBefore(q, u, v) /\ <<u, v>> \in DOMAIN gg.edges)
                    /\ <<u, v>> \in DOMAIN G.edges
                            => G.edges[<<u, v>>] = [weight |-> gg.edges[<<u, v>>].weight]
            /\ (q = ScenarioQuery /\ DOMAIN gg.edges = PatternFixedEdges) =>
                    G.edges = (<<"catastrophizing", "fortune_telling">> :> [weight |-> 5]
                                @@ <<"fortune_telling", "mind_reading">> :> [weight |-> 3])

C14_Witness ==
    /\ result.op = "extract_user_pattern"
    /\ result.distortions = <<"mind_reading", "fortune_telling", "catastrophizing", "fortune_telling">>
    /\ DOMAIN gear.global_graph.edges = PatternFixedEdges \cup PatternOptionalEdges
    /\ DOMAIN result.value.edges =
            {<<"mind_reading", "fortune_telling">>, <<"mind_reading", "catastrophizing">>,
             <<"fortune_telling", "catastrophizing">>, <<"catastrophizing", "fortune_telling">>}

NoRepeat(path) == \A i, j \in DOMAIN path : i # j => path[i] # path[j]

(* C15: every path find_cascade_paths returns visits no node twice, has at *)
(* least 2 nodes and at most max_length edges and follows edges of the     *)
(* query graph; at most 10 paths are returned.                             *)
C15_CascadePathsWellFormed ==
    result.op = "find_cascade_paths" =>
        LET G == extract_user_pattern(gear.global_graph, result.distortions)
        IN  /\ Len(result.value) <= 10
            /\ \A k \in DOMAIN result.value :
                    LET path == result.value[k]
                    IN  /\ NoRepeat(path)
                        /\ Len(path) >= 2
                        /\ Len(path) - 1 <= result.max_length
                        /\ \A i \in 1..(Len(path) - 1) :
                                <<path[i], path[i + 1]>> \in DOMAIN G.edges

C15_Witness ==
    /\ result.op = "find_cascade_paths"
    /\ result.max_length = 2
    /\ Len(Cascades(gear.global_graph, result.distortions, result.max_length)) > 10
    /\ Len(result.value) = 10
    /\ \E k \in DOMAIN result.value : Len(result.value[k]) = 3

\* The sum of the weights of the path's edges in the engine's global graph.
RECURSIVE ScoreOf(_)
ScoreOf(path) ==
    IF Len(path) <= 1 THEN 0
    ELSE gear.global_graph.edges[<<path[1], path[2]>>].weight + ScoreOf(Tail(path))

\* The simple directed paths of G with at most max_length edges.
BoundedSimplePaths(G, max_length) ==
    UNION {{p \in SimplePaths(G, st[1], st[2]) : Len(p) - 1 <= max_length}
           : st \in {x \in (DOMAIN G.nodes) \X (DOMAIN G.nodes) : x[1] # x[2]}}

(* C16: find_cascade_paths returns the 10 highest-scoring simple directed  *)
(* paths (of at most max_length edges) of the query graph, a path's score  *)
(* being the sum of its edge weights, in descending score order, equal     *)
(* scores in discovery order; no path scoring strictly higher than a       *)
(* returned one is left out; in the scenario with max_length = 4 the first *)
(* path is [catastrophizing, fortune_telling, mind_reading], score 8.      *)
C16_TopCascadesByWeight ==
    result.op = "find_cascade_paths" =>
        LET G == extract_user_pattern(gear.global_graph, result.distortions)
            enumerated == BoundedSimplePaths(G, result.max_length)
            discovered == Cascades(gear.global_graph, result.distortions, result.max_length)
            value == result.value
            returned == {value[k] : k \in DOMAIN value}
        IN  /\ returned \subseteq enumerated
            /\ Len(value) = Min(10, Cardinality(enumerated))
            /\ Cardinality(returned) = Len(value)
            /\ {discovered[k] : k \in DOMAIN discovered} = enumerated
            /\ \A i, j \in DOMAIN value : i < j =>
                    /\ ScoreOf(value[i]) >= ScoreOf(value[j])
                    /\ ScoreOf(value[i]) = ScoreOf(value[j]) =>
                            PositionIn(discovered, value[i]) < PositionIn(discovered, value[j])
            /\ \A p \in enumerated \ returned : \A k \in DOMAIN value :
                    ScoreOf(p) <= ScoreOf(value[k])
            /\ (result.distortions = ScenarioQuery /\ result.max_length = 4
                    /\ DOMAIN gear.global_graph.edges = PatternFixedEdges) =>
                    /\ value[1] = ScenarioQuery
                    /\ ScoreOf(value[1]) = 8

C16_Witness ==
    /\ result.op = "find_cascade_paths"
    /\ result.max_length = 4
    /\ Len(Cascades(gear.global_graph, result.distortions, result.max_length)) = 12
    /\ Len(result.value) = 10
    /\ \E i \in DOMAIN result.value :
            /\ i < Len(result.value)
            /\ ScoreOf(result.value[i]) = ScoreOf(result.value[i + 1])
            /\ ScoreOf(result.value[1]) > ScoreOf(result.value[i])

----------------------------------------------------------------------------
(* Similarity. *)

(* C17: _compute_graph_similarity is symmetric: the similarity of A with B *)
(* is the similarity of B with A, for any two directed graphs.             *)
C17_SimilaritySymmetric ==
    (result.op = "_compute_graph_similarity" /\ result.G1 # result.G2) =>
        \A back \in _compute_graph_similarity(result.G2, result.G1) :
            result.value = back

(* C18: _compute_graph_similarity is exactly 0.0 when either graph has no  *)
(* nodes, and exactly 0.0 when the two node sets are disjoint.             *)
C18_ZeroWhenEmptyOrDisjoint ==
    (result.op = "_compute_graph_similarity"
        /\ DOMAIN result.G1.nodes \cap DOMAIN result.G2.nodes = {}) =>
            result.value = Zero(FALSE)

C18_Witness ==
    /\ result.op = "_compute_graph_similarity"
    /\ DOMAIN result.G1.nodes # {}
    /\ DOMAIN result.G2.nodes # {}
    /\ DOMAIN result.G1.nodes \cap DOMAIN result.G2.nodes = {}
    /\ DOMAIN result.G2.edges # {}
    /\ result.value = Zero(FALSE)

----------------------------------------------------------------------------
(* Similar patterns and outcomes. *)

\* The position of the user in the engine's personal graphs (load order).
LoadPosition(uid) ==
    CHOOSE i \in DOMAIN gear.personal_graphs : gear.personal_graphs[i][1] = uid

\* The values the similarity of the query's graph with the user's personal
\* graph can take.
SimilarityTo(q, uid) ==
    _compute_graph_similarity(extract_user_pattern(gear.global_graph, q),
                              gear.personal_graphs[LoadPosition(uid)][2])

(* C19: find_similar_patterns(query, top_k), top_k >= 0, returns           *)
(* min(top_k, number of personal graphs) triples, one per user, sorted by  *)
(* similarity descending, users of equal similarity in load order, each    *)
(* with its user's own metadata; no user left out has a strictly higher    *)
(* similarity than a returned one.                                         *)
C19_SimilarPatternsRanked ==
    (result.op = "find_similar_patterns" /\ result.top_k >= 0) =>
        LET value == result.value
            q == result.distortions
            users == {gear.personal_graphs[i][1] : i \in DOMAIN gear.personal_graphs}
            returned == {value[k][1] : k \in DOMAIN value}
        IN  /\ Len(value) = Min(result.top_k, Len(gear.personal_graphs))
            /\ returned \subseteq users
            /\ Cardinality(returned) = Len(value)
            /\ \A k \in DOMAIN value :
                    /\ value[k][2] \in SimilarityTo(q, value[k][1])
                    /\ value[k][3] = gear.personal_graphs[LoadPosition(value[k][1])][2].graph
                    /\ value[k][3].user_id = value[k][1]
            /\ \A i, j \in DOMAIN value : i < j =>
                    /\ ~FLess(value[i][2], value[j][2])
                    /\ FEq(value[i][2], value[j][2]) =>
                            LoadPosition(value[i][1]) < LoadPosition(value[j][1])
            /\ \A u \in users \ returned : \E sim \in SimilarityTo(q, u) :
                    \A k \in DOMAIN value : ~FLess(value[k][2], sim)

C19_Witness ==
    /\ result.op = "find_similar_patterns"
    /\ result.top_k = 2
    /\ Len(gear.personal_graphs) = 3
    /\ Len(result.value) = 2
    /\ LoadPosition(result.value[1][1]) = 2
    /\ LoadPosition(result.value[2][1]) = 1
    /\ FLess(result.value[2][2], result.value[1][2])
    /\ SimilarityTo(result.distortions, gear.personal_graphs[3][1]) = {result.value[2][2]}

OutcomeKeys == {"num_similar_cases", "avg_improvement", "most_common_trajectory", "success_rate"}

(* C20: the outcomes of the retrieve_interventions bundle always report    *)
(* the count of similar cases, the mean improvement, the most frequent     *)
(* journey_type and the fraction with improvement > 0; with no similar     *)
(* case (no personal graph loaded, or top_k = 0) they report count 0,      *)
(* mean improvement 0 and fraction 0.                                      *)
C20_OutcomesAlwaysComplete ==
    result.op = "retrieve_interventions" =>
        LET outcomes == result.value.outcomes
        IN  /\ OutcomeKeys \subseteq DOMAIN outcomes
            /\ outcomes.num_similar_cases = Len(result.value.similar_users)
            /\ result.value.similar_users = <<>> =>
                    /\ outcomes.num_similar_cases = 0
                    /\ outcomes.avg_improvement = FromInt(0)
                    /\ outcomes.success_rate = FromInt(0)


\* The first position of seq holding x.
FirstSeen(seq, x) == CHOOSE i \in DOMAIN seq : seq[i] = x /\ \A j \in 1..(i - 1) : seq[j] # x

(* C21: the bundle of retrieve_interventions(distortions, top_k) is made of *)
(* the other operations: similar_users are the find_similar_patterns(top_k) *)
(* results in the same order, keystone_distortions the first 3 of           *)
(* find_keystone_distortions, cascade_patterns the first 5 of               *)
(* find_cascade_paths, and outcomes aggregate the returned similar cases,   *)
(* most_common_trajectory being the journey_type of maximal count, the      *)
(* first seen among those of equal count.                                   *)
C21_BundleComposes ==
    result.op = "retrieve_interventions" =>
        LET value == result.value
            q == result.distortions
            keystones == find_keystone_distortions(gear.global_graph, q)
            cascades == find_cascade_paths(gear.global_graph, q, 4)
            cases == value.similar_users
            types == [i \in DOMAIN cases |-> cases[i].journey_type]
            gains == [i \in DOMAIN cases |-> cases[i].improvement]
        IN  /\ \E similar \in find_similar_patterns(gear, q, result.top_k) :
                    /\ Len(cases) = Len(similar)
                    /\ \A i \in DOMAIN cases :
                            /\ cases[i].user_id = similar[i][1]
                            /\ cases[i].similarity = NpRound3(similar[i][2])
                            /\ cases[i].journey_type = similar[i][3].journey_type
                            /\ cases[i].improvement = similar[i][3].improvement
            /\ Len(value.keystone_distortions) = Min(3, Len(keystones))
            /\ \A i \in DOMAIN value.keystone_distortions :
                    /\ value.keystone_distortions[i].distortion = keystones[i][1]
                    /\ value.keystone_distortions[i].centrality = PyRound3(keystones[i][2])
            /\ Len(value.cascade_patterns) = Min(5, Len(cascades))
            /\ \A i \in DOMAIN value.cascade_patterns :
                    value.cascade_patterns[i] = Join(cascades[i])
            /\ cases # <<>> =>
                    /\ value.outcomes.num_similar_cases = Len(cases)
                    /\ value.outcomes.avg_improvement = NpRound3(mean(gains))
                    /\ value.outcomes.success_rate =
                            FromRatio(Cardinality({i \in DOMAIN gains :
                                                    FLess(FromInt(0), gains[i])}),
                                      Len(gains))
                    /\ LET top == value.outcomes.most_common_trajectory
                       IN  /\ CountIn(types, top) > 0
                           /\ \A i \in DOMAIN types :
                                /\ CountIn(types, types[i]) <= CountIn(types, top)
                                /\ CountIn(types, types[i]) = CountIn(types, top) =>
                                        FirstSeen(types, top) <= i
            /\ cases = <<>> =>
                    /\ value.outcomes.avg_improvement = FromInt(0)
                    /\ value.outcomes.success_rate = FromInt(0)

\* Four keystones cut to 3, eleven cascades cut to 5, and two journey types
\* returned once each, the second one not winning.
C21_Witness ==
    /\ result.op = "retrieve_interventions"
    /\ Len(find_keystone_distortions(gear.global_graph, result.distortions)) = 4
    /\ Len(result.value.keystone_distortions) = 3
    /\ Len(find_cascade_paths(gear.global_graph, result.distortions, 4)) > 5
    /\ Len(result.value.cascade_patterns) = 5
    /\ Len(result.value.similar_users) = 2
    /\ result.value.similar_users[1].journey_type # result.value.similar_users[2].journey_type
    /\ result.value.outcomes.most_common_trajectory = result.value.similar_users[1].journey_type


\* The identifiers on some node of the engine's global graph or of a personal graph.
KnownIdentifiers ==
    (DOMAIN gear.global_graph.nodes)
        \cup UNION {DOMAIN gear.personal_graphs[i][2].nodes : i \in DOMAIN gear.personal_graphs}

(* C22: a query that is empty, or lists only identifiers on no node of the  *)
(* global graph or of any personal graph, gets neutral results: every       *)
(* similar case has similarity 0, the cascade list is empty and the         *)
(* keystone list is empty.                                                  *)
C22_UnknownQueryNeutral ==
    (/\ result.op \in {"retrieve_interventions", "find_keystone_distortions"}
     /\ \A i \in DOMAIN result.distortions : result.distortions[i] \notin KnownIdentifiers) =>
        IF result.op = "find_keystone_distortions"
        THEN result.value = <<>>
        ELSE /\ \A i \in DOMAIN result.value.similar_users :
                    result.value.similar_users[i].similarity = FromInt(0)
             /\ result.value.cascade_patterns = <<>>
             /\ result.value.keystone_distortions = <<>>


BundleKeys ==
    {"query_distortions", "similar_users", "keystone_distortions", "cascade_patterns", "outcomes"}

(* C23: on an engine loaded from a builder-made export, every call of       *)
(* retrieve_interventions returns a result bundle and no exception reaches  *)
(* the caller, whatever the list of identifiers: empty, unknown,            *)
(* duplicated, in any order, its query graph edgeless, a single node or     *)
(* disconnected.                                                            *)
C23_RetrieveNeverRaises ==
    result.op = "retrieve_interventions" =>
        /\ "error" \notin DOMAIN result.value
        /\ DOMAIN result.value = BundleKeys
        /\ result.value.query_distortions = result.distortions

\* A bundle for a query that repeats an identifier, lists an unknown one, and
\* whose weight lookup ran on an edge of the loaded global graph.
C23_Witness ==
    /\ result.op = "retrieve_interventions"
    /\ DOMAIN result.value = BundleKeys
    /\ result.value.similar_users # <<>>
    /\ \E i, j \in DOMAIN result.distortions :
            /\ i < j
            /\ <<result.distortions[i], result.distortions[j]>> \in DOMAIN gear.global_graph.edges
    /\ \E i, j \in DOMAIN result.distortions : i < j /\ result.distortions[i] = result.distortions[j]
    /\ \E i \in DOMAIN result.distortions : result.distortions[i] \notin KnownIdentifiers


\* The (entry, use, detection) triples in which the intervention is used in an
\* entry that lists the distortion.
CoUses(entries, iv, d) ==
    UNION {{<<k, p[1], p[2]>> :
                p \in {x \in (DOMAIN entries[k].interventions_used)
                                \X (DOMAIN entries[k].distortions) :
                          /\ entries[k].interventions_used[x[1]] = iv
                          /\ entries[k].distortions[x[2]].type = d}}
           : k \in DOMAIN entries}

(* C24: in the global graph a targets edge intervention -> distortion       *)
(* exists exactly when the intervention was used at least twice with a      *)
(* detection of the distortion in the same entry; its weight is that count  *)
(* and its effectiveness is the avg_improvement on the intervention's node, *)
(* so the targets edges leaving one intervention carry one effectiveness.   *)
C24_TargetsEdges ==
    GlobalBuilt =>
        LET entries == AllEntries(journeys)
            G == global_graph
        IN  /\ \A iv \in Interventions, d \in Distortions :
                    /\ (<<iv, d>> \in DOMAIN G.edges) <=>
                            Cardinality(CoUses(entries, iv, d)) >= 2
                    /\ <<iv, d>> \in DOMAIN G.edges =>
                            /\ G.edges[<<iv, d>>].edge_type = "targets"
                            /\ G.edges[<<iv, d>>].weight = Cardinality(CoUses(entries, iv, d))
                            /\ G.edges[<<iv, d>>].effectiveness = G.nodes[iv].avg_improvement
            /\ \A e \in DOMAIN G.edges :
                    G.edges[e].edge_type = "targets" =>
                        e[1] \in Interventions /\ e[2] \in Distortions
            /\ \A e, f \in DOMAIN G.edges :
                    (/\ G.edges[e].edge_type = "targets"
                     /\ G.edges[f].edge_type = "targets"
                     /\ e[1] = f[1]) =>
                        G.edges[e].effectiveness = G.edges[f].effectiveness

\* Two targets edges leave the intervention, one of weight 3 or more, with the
\* node's average improvement, a mean of different improvements, as
\* effectiveness.
C24_Witness ==
    /\ pc = "built"
    /\ <<"exposure_therapy", "catastrophizing">> \in DOMAIN global_graph.edges
    /\ <<"exposure_therapy", "fortune_telling">> \in DOMAIN global_graph.edges
    /\ FLess(Tenth(1),
             global_graph.edges[<<"exposure_therapy", "catastrophizing">>].effectiveness)
    /\ FLess(global_graph.edges[<<"exposure_therapy", "catastrophizing">>].effectiveness,
             Tenth(3))
    /\ global_graph.edges[<<"exposure_therapy", "catastrophizing">>].effectiveness =
            global_graph.nodes["exposure_therapy"].avg_improvement
    /\ global_graph.edges[<<"exposure_therapy", "catastrophizing">>].weight >= 3


\* The journey of the user (user ids are distinct within the journeys).
JourneyOf(uid) ==
    journeys[CHOOSE k \in DOMAIN journeys : journeys[k].user_profile.user_id = uid]

\* The interventions some entry of the list used.
UsedIn(entries) ==
    UNION {{entries[k].interventions_used[i] : i \in DOMAIN entries[k].interventions_used}
           : k \in DOMAIN entries}

\* Over the uses of iv in entries that have a successor: their number, and the
\* sum of (next entry's measured_severity - this entry's), added in order.
FollowedUses(entries, iv) ==
    SeqSum([k \in DOMAIN entries |->
        IF k < Len(entries) THEN CountIn(entries[k].interventions_used, iv) ELSE 0])

RECURSIVE DeltaSumFrom(_, _, _, _)
DeltaSumFrom(acc, entries, iv, k) ==
    IF k >= Len(entries) THEN acc
    ELSE DeltaSumFrom(
            FSumFrom(acc, Repeat(CountIn(entries[k].interventions_used, iv),
                                 FSub(entries[k + 1].measured_severity,
                                      entries[k].measured_severity))),
            entries, iv, k + 1)

DeltaSum(entries, iv) == DeltaSumFrom(FromInt(0), entries, iv, 1)

\* The deltas of iv in the order they arise: one per use in an entry that has
\* a successor.
Deltas(entries, iv) ==
    Concat([k \in 1..(Len(entries) - 1) |->
        Repeat(CountIn(entries[k].interventions_used, iv),
               FSub(entries[k + 1].measured_severity, entries[k].measured_severity))])

\* The first k of the values d added to 0 one after the other.
RECURSIVE RunningSum(_, _)
RunningSum(d, k) == IF k = 0 THEN FromInt(0) ELSE FAdd(RunningSum(d, k - 1), d[k])

\* What the k-th of those additions lost to rounding: the sum is taken from
\* the larger of its two operands and the smaller one is added to that.
RoundingLoss(d, k) ==
    LET before == RunningSum(d, k - 1)
        after == RunningSum(d, k)
    IN  IF FLess(FAbs(before), FAbs(d[k])) THEN FAdd(FSub(d[k], after), before)
        ELSE FAdd(FSub(before, after), d[k])

\* The losses of the additions after the first, added up as they arise.
RECURSIVE LossSum(_, _)
LossSum(d, k) ==
    IF k <= 1 THEN Zero(FALSE) ELSE FAdd(LossSum(d, k - 1), RoundingLoss(d, k))

\* mean(deltas) as the interpreter computes sum(deltas) / len(deltas): the
\* deltas added left to right and, where sum() is compensated, the losses of
\* the additions added to that when they do not cancel.
MeanOfDeltas(entries, iv) ==
    LET d == Deltas(entries, iv)
        plain == DeltaSum(entries, iv)
        loss == LossSum(d, Len(d))
    IN  FDivInt(IF compensated_sum /\ ~IsZero(loss) THEN FAdd(plain, loss) ELSE plain,
                FollowedUses(entries, iv))

(* C25: in a personal graph each intervention's node counts its uses; the   *)
(* deltas are (next entry's measured_severity - this entry's), one per use  *)
(* in an entry that has a successor; with at least one delta the node has   *)
(* avg_severity_change = mean(deltas), the float sum(deltas) / len(deltas)  *)
(* of the interpreter the builder runs on, and effectiveness_score = minus  *)
(* that, and an intervention used only in the last entry has neither        *)
(* attribute.                                                               *)
C25_SeverityDeltas ==
    \A i \in DOMAIN personal_graphs :
        LET entries == JourneyOf(personal_graphs[i][1]).entries
            G == personal_graphs[i][2]
        IN  \A iv \in UsedIn(entries) :
                /\ iv \in DOMAIN G.nodes
                /\ G.nodes[iv].node_type = "intervention"
                /\ G.nodes[iv].uses =
                        SeqSum([k \in DOMAIN entries |->
                                    CountIn(entries[k].interventions_used, iv)])
                /\ FollowedUses(entries, iv) > 0 =>
                        /\ {"avg_severity_change", "effectiveness_score"}
                                \subseteq DOMAIN G.nodes[iv]
                        /\ G.nodes[iv].avg_severity_change = MeanOfDeltas(entries, iv)
                        /\ G.nodes[iv].effectiveness_score =
                                FNeg(MeanOfDeltas(entries, iv))
                /\ FollowedUses(entries, iv) = 0 =>
                        DOMAIN G.nodes[iv] = {"node_type", "uses"}

\* On an interpreter with the compensated sum: a user with the three deltas
\* 0.3 - 0.5, 0.1 - 0.3 and 0.2 - 0.1, whose mean is -0.09999999999999999
\* there and -0.10000000000000002 when added left to right; one who used the
\* intervention in the last entry only; and one with the two deltas 0.4 - 0.6
\* and 0.1 - 0.4, whose mean is -0.25.
C25_Witness ==
    /\ compensated_sum
    /\ Len(personal_graphs) = 3
    /\ LET entries == JourneyOf(personal_graphs[1][1]).entries
           G == personal_graphs[1][2]
       IN  /\ Len(entries) = 4
           /\ "exposure_therapy" \in DOMAIN G.nodes
           /\ G.nodes["exposure_therapy"].uses = 4
           /\ Len(Deltas(entries, "exposure_therapy")) = 3
           /\ G.nodes["exposure_therapy"].avg_severity_change =
                    [neg |-> TRUE, exp |-> -56, hi |-> 107374182, lo |-> 26843545]
           /\ FDivInt(DeltaSum(entries, "exposure_therapy"), 3) =
                    [neg |-> TRUE, exp |-> -56, hi |-> 107374182, lo |-> 26843547]
    /\ LET H == personal_graphs[2][2]
       IN  /\ "exposure_therapy" \in DOMAIN H.nodes
           /\ H.nodes["exposure_therapy"].uses = 1
           /\ "avg_severity_change" \notin DOMAIN H.nodes["exposure_therapy"]
    /\ LET K == personal_graphs[3][2]
       IN  /\ Len(JourneyOf(personal_graphs[3][1]).entries) = 3
           /\ K.nodes["exposure_therapy"].uses = 2
           /\ K.nodes["exposure_therapy"].avg_severity_change = FromRatio(-1, 4)
           /\ K.nodes["exposure_therapy"].effectiveness_score = FromRatio(1, 4)


(* C26: personal-graph edge weights never shrink as entries are folded in:  *)
(* for every prefix of a journey's entry list, each edge of the prefix's    *)
(* graph is an edge of the full graph with a weight at least as large; and  *)
(* every edge weight of a built personal or global graph is an integer of   *)
(* at least 1.                                                              *)
C26_PrefixMonotone ==
    pc = "built" =>
        /\ \A i \in DOMAIN journeys : \A n \in 0..Len(journeys[i].entries) :
                LET prefix == PartGraph(journeys[i], 1, n)
                    full == DictGet(personal_graphs, journeys[i].user_profile.user_id)
                IN  \A e \in DOMAIN prefix.edges :
                        /\ e \in DOMAIN full.edges
                        /\ full.edges[e].edge_type = prefix.edges[e].edge_type
                        /\ full.edges[e].weight >= prefix.edges[e].weight
        /\ \A i \in DOMAIN personal_graphs : \A e \in DOMAIN personal_graphs[i][2].edges :
                personal_graphs[i][2].edges[e].weight \in Nat \ {0}
        /\ \A e \in DOMAIN global_graph.edges : global_graph.edges[e].weight \in Nat \ {0}

\* The one-entry prefix already has a co_occurs edge, kept by the full graph,
\* and an addresses edge that the second entry makes heavier.
C26_Witness ==
    /\ pc = "built"
    /\ Len(journeys[1].entries) = 2
    /\ \E e \in DOMAIN PartGraph(journeys[1], 1, 1).edges :
            /\ PartGraph(journeys[1], 1, 1).edges[e].edge_type = "co_occurs"
            /\ personal_graphs[1][2].edges[e].weight = PartGraph(journeys[1], 1, 1).edges[e].weight
    /\ \E e \in DOMAIN PartGraph(journeys[1], 1, 1).edges :
            personal_graphs[1][2].edges[e].weight > PartGraph(journeys[1], 1, 1).edges[e].weight


(* C27: the composite similarity of any two directed graphs lies in [0, 1], *)
(* graphs with edges in both directions or self-loops included.             *)
C27_SimilarityInUnitRange ==
    result.op = "_compute_graph_similarity" =>
        /\ ~FLess(result.value, FromInt(0))
        /\ ~FLess(One, result.value)


\* No self-loop and no two edges in opposite directions: every degree is at
\* most the number of other nodes.
Oriented(G) ==
    \A e \in DOMAIN G.edges : e[1] # e[2] /\ <<e[2], e[1]>> \notin DOMAIN G.edges

(* C27 as amended: the composite similarity of any two directed graphs is   *)
(* at most 1; it is at least 0 when neither graph has a self-loop or a pair *)
(* of edges in opposite directions.  With such edges a degree centrality    *)
(* can exceed 1, the centrality term 1 - |c1 - c2| can be negative, and so  *)
(* can the similarity.                                                      *)
C27_SimilarityRange ==
    result.op = "_compute_graph_similarity" =>
        /\ ~FLess(One, result.value)
        /\ (Oriented(result.G1) /\ Oriented(result.G2)) =>
                ~FLess(result.value, FromInt(0))

\* Two oriented graphs, one with an edge at a shared node and one without any:
\* the centrality term is 0 and the similarity is the node term alone.
C27_Witness ==
    /\ result.op = "_compute_graph_similarity"
    /\ Oriented(result.G1) /\ Oriented(result.G2)
    /\ DOMAIN result.G1.edges # {}
    /\ DOMAIN result.G2.edges = {}
    /\ Cardinality(DOMAIN result.G2.nodes) = 2
    /\ Cardinality(DOMAIN result.G1.nodes \cap DOMAIN result.G2.nodes) = 1
    /\ \A n \in DOMAIN result.G1.nodes \cap DOMAIN result.G2.nodes :
            degree_centrality(result.G1)[n] = One
    /\ result.value = FMul(Tenth(4), FromRatio(1, 3))


\* q with every repeated occurrence after the first removed.
RECURSIVE WithoutRepeats(_)
WithoutRepeats(q) ==
    IF q = <<>> THEN <<>>
    ELSE <<Head(q)>> \o WithoutRepeats(SelectSeq(Tail(q), LAMBDA x : x # Head(q)))

(* C28: duplicates in the query list are collapsed without effect:          *)
(* extract_user_pattern(L) has the node set and the weighted edge set of    *)
(* extract_user_pattern(L'), L' being L with every repeated occurrence      *)
(* after the first removed, so a duplicate brings no self-loop and no       *)
(* reverse-direction edge.                                                  *)
C28_DuplicatesWithoutEffect ==
    result.op = "extract_user_pattern" =>
        LET collapsed == extract_user_pattern(gear.global_graph,
                                              WithoutRepeats(result.distortions))
        IN  /\ DOMAIN result.value.nodes = DOMAIN collapsed.nodes
            /\ result.value.edges = collapsed.edges

(* C28 as amended: duplicates collapse in the node set only.  The graphs of *)
(* L and L' have the same nodes and every edge of L' is an edge of L with   *)
(* the same weight; each further edge u -> v of L is an edge of the global  *)
(* graph whose v is repeated in L, and is a self-loop or runs against the   *)
(* order of first occurrences.                                              *)
C28_DuplicatesAddEdges ==
    result.op = "extract_user_pattern" =>
        LET q == result.distortions
            G == result.value
            collapsed == extract_user_pattern(gear.global_graph, WithoutRepeats(q))
        IN  /\ DOMAIN G.nodes = DOMAIN collapsed.nodes
            /\ \A e \in DOMAIN collapsed.edges :
                    e \in DOMAIN G.edges /\ G.edges[e] = collapsed.edges[e]
            /\ \A e \in (DOMAIN G.edges) \ (DOMAIN collapsed.edges) :
                    /\ e \in DOMAIN gear.global_graph.edges
                    /\ G.edges[e].weight = gear.global_graph.edges[e].weight
                    /\ CountIn(q, e[2]) >= 2
                    /\ e[1] = e[2] \/ FirstSeen(q, e[2]) < FirstSeen(q, e[1])
            /\ NoRepeat(q) => G = collapsed

\* A query with a repeat whose graph keeps the edges of the collapsed query
\* and gains a self-loop and an edge against the order of first occurrences.
C28_Witness ==
    /\ result.op = "extract_user_pattern"
    /\ ~NoRepeat(result.distortions)
    /\ LET G == result.value
           collapsed == extract_user_pattern(gear.global_graph,
                                             WithoutRepeats(result.distortions))
       IN  /\ DOMAIN collapsed.edges # {}
           /\ \E e \in (DOMAIN G.edges) \ (DOMAIN collapsed.edges) : e[1] = e[2]
           /\ \E e \in (DOMAIN G.edges) \ (DOMAIN collapsed.edges) :
                    e[1] # e[2] /\ <<e[2], e[1]>> \in DOMAIN collapsed.edges


(* C29: for a query list without repeats the query graph is acyclic, every  *)
(* edge going from an earlier to a later input position; so every path      *)
(* find_cascade_paths returns lists its distortions in the relative order   *)
(* of the input, and each consecutive pair of a path is an edge of the      *)
(* query graph, whose weight the scoring reads.                             *)
C29_DuplicateFreeQueryOrdered ==
    (result.op \in {"extract_user_pattern", "find_cascade_paths"}
        /\ NoRepeat(result.distortions)) =>
        LET q == result.distortions
            G == extract_user_pattern(gear.global_graph, q)
        IN  IF result.op = "extract_user_pattern"
            THEN /\ \A e \in DOMAIN result.value.edges :
                        PositionIn(q, e[1]) < PositionIn(q, e[2])
                 /\ \A u, v \in DOMAIN result.value.nodes :
                        ~(SimplePaths(result.value, u, v) # {}
                            /\ <<v, u>> \in DOMAIN result.value.edges)
            ELSE \A k \in DOMAIN result.value :
                    \A i \in 1..(Len(result.value[k]) - 1) :
                        /\ PositionIn(q, result.value[k][i])
                                < PositionIn(q, result.value[k][i + 1])
                        /\ <<result.value[k][i], result.value[k][i + 1]>> \in DOMAIN G.edges
                        /\ "weight" \in DOMAIN G.edges[<<result.value[k][i],
                                                        result.value[k][i + 1]>>]

\* A three-node path returned for a query in the reverse of the scenario's
\* order, over a global graph that also has the edges the other way round.
C29_Witness ==
    /\ result.op = "find_cascade_paths"
    /\ result.distortions = <<"mind_reading", "fortune_telling", "catastrophizing">>
    /\ PatternFixedEdges \subseteq DOMAIN gear.global_graph.edges
    /\ \E k \in DOMAIN result.value :
            result.value[k] = <<"mind_reading", "fortune_telling", "catastrophizing">>


----------------------------------------------------------------------------
(* Batches. *)

\* The node ids of an exported graph.
ExportedIds(G) == {node.id : node \in G.nodes}

(* C30: after any sequence of process_all_journeys calls on one builder the *)
(* exported data is batch-consistent: the personal graphs are exactly one   *)
(* per journey of the batch that produced the current global graph,         *)
(* metadata.num_users is that batch's journey count, and the global         *)
(* graph's node set is the union of the exported personal graphs' node      *)
(* sets.                                                                    *)
C30_ExportBatchConsistent ==
    pc = "exported" =>
        LET exported == export_data.personal_graphs
        IN  /\ Len(exported) = Len(journeys)
            /\ \A k \in DOMAIN journeys :
                    Cardinality({i \in DOMAIN exported :
                        /\ exported[i][1] = journeys[k].user_profile.user_id
                        /\ exported[i][2] = ExportPersonal(build_personal_graph(journeys[k]))}) = 1
            /\ export_data.metadata.num_users = Len(journeys)
            /\ ExportedIds(export_data.global_graph) =
                    UNION {ExportedIds(exported[i][2]) : i \in DOMAIN exported}

====
